---- MODULE Spec2Model ----
(***************************************************************************)
(* Model of the markdown/HTML-to-document rendering engine of              *)
(* src/helpers/file_generators.py: the inline-style tokenizer, the two     *)
(* markdown renderers (create_styled_docx, create_styled_pdf) and the two  *)
(* HTML parsers (HTMLToDocxParser, HTMLToPDFParser).                       *)
(*                                                                         *)
(* Text is a sequence of one-character strings.  The flow sink (python-    *)
(* docx) and the page sink (FPDF) are external libraries: they are         *)
(* modelled by the contract of spec.md section 3 (a log of structural      *)
(* calls; a cursor that every write advances by the measured width).       *)
(***************************************************************************)
EXTENDS Integers, Sequences, FiniteSets, TLC

VARIABLES
    mode,       \* "script": the input is given whole; "free", "short": its elements are chosen
                \* one by one; "again": the input of the first conversion is replayed
    conv,       \* the conversion that runs: "tokenize", "wrap", "md_docx", "md_pdf", "html_docx", "html_pdf"
    input,      \* its input: a sequence of lines (markdown) or of parser events (HTML)
    pos,        \* index of the next element of input
    pc,         \* "run" while the conversion works, "done" when it has returned
    md,         \* locals of the markdown renderers (in_code_block, code_block_started)
    doc,        \* flow sink: the sequence of structural calls made so far
    pdf,        \* page sink: cursor, font and the sequence of calls made so far
    hp,         \* fields of HTMLToPDFParser
    hd,         \* fields of HTMLToDocxParser
    tokens,     \* result of the inline tokenizer (tokenize conversion)
    run,        \* 1 for the first conversion of an input, 2 for its repetition
    prev,       \* what the first conversion left behind (sink calls and final state)
    env,        \* the environment: whether the DejaVu font files can be loaded
    out         \* what create_styled_pdf returns and which of its passes have failed

vars == <<mode, conv, input, pos, pc, md, doc, pdf, hp, hd, tokens, run, prev, env, out>>

(***************************************************************************)
(* Bounds of the model.                                                    *)
(***************************************************************************)
MaxLineLen == 5      \* longest enumerated tokenizer line
MaxEvents == 3       \* longest freely chosen sequence of parser events
MaxLines == 3        \* longest freely chosen markdown document, in lines
MaxReplay == 2       \* longest freely chosen input of a conversion that is repeated
MaxFaults == 2       \* longest sequence of write attempts whose failure is chosen

(***************************************************************************)
(* Generic helpers on text.                                                *)
(***************************************************************************)
\* the backtick character (the lexer of TLA+ admits no backtick inside a string)
Backtick == "BACKTICK"

Whitespace == {" ", "\t", "\n"}

RECURSIVE SeqsUpTo(_, _)
\* all sequences over alphabet A of length at most n
SeqsUpTo(A, n) ==
    IF n = 0 THEN {<<>>}
    ELSE LET shorter == SeqsUpTo(A, n - 1)
         IN  shorter \cup {Append(s, c) : s \in {t \in shorter : Len(t) = n - 1}, c \in A}

\* str.startswith / str.endswith
StartsWith(s, p) == Len(s) >= Len(p) /\ SubSeq(s, 1, Len(p)) = p
EndsWith(s, p) == Len(s) >= Len(p) /\ SubSeq(s, Len(s) - Len(p) + 1, Len(s)) = p

\* Python slice s[a:] and s[a:-b] (0-based a, b characters cut at the end)
SliceFrom(s, a) == SubSeq(s, a + 1, Len(s))
SliceMid(s, a, b) == SubSeq(s, a + 1, Len(s) - b)

RECURSIVE LStrip(_)
LStrip(s) == IF s # <<>> /\ Head(s) \in Whitespace THEN LStrip(Tail(s)) ELSE s

RECURSIVE RStrip(_)
RStrip(s) ==
    IF s # <<>> /\ s[Len(s)] \in Whitespace THEN RStrip(SubSeq(s, 1, Len(s) - 1)) ELSE s

\* str.strip()
Strip(s) == LStrip(RStrip(s))

RECURSIVE Concat(_)
\* concatenation of a sequence of texts
Concat(ss) == IF ss = <<>> THEN <<>> ELSE Head(ss) \o Concat(Tail(ss))

(***************************************************************************)
(* Inline-style tokenizer:                                                 *)
(*   re.split(PATTERN, line), PATTERN = bold | italic | code span          *)
(* followed by the startswith/endswith classification of every part.       *)
(***************************************************************************)

\* least element of a set of indices, or 0 when it is empty
MinOrZero(S) == IF S = {} THEN 0 ELSE CHOOSE j \in S : \A k \in S : j <= k

\* index of the first c in s at or after lo, or 0
IndexOf(s, c, lo) == MinOrZero({j \in lo..Len(s) : s[j] = c})

\* index of the first pair cc in s at or after lo, or 0
IndexOfPair(s, c, lo) == MinOrZero({j \in lo..(Len(s) - 1) : s[j] = c /\ s[j + 1] = c})

\* \*\*.*?\*\* anchored at i: the index after the match, or 0.  The lazy .*?
\* stops at the first later "**".
MatchBoldAt(s, i) ==
    IF i + 1 <= Len(s) /\ s[i] = "*" /\ s[i + 1] = "*"
    THEN LET j == IndexOfPair(s, "*", i + 2)
         IN  IF j = 0 THEN 0 ELSE j + 2
    ELSE 0

\* \*.*?\* anchored at i
MatchItalicAt(s, i) ==
    IF s[i] = "*"
    THEN LET j == IndexOf(s, "*", i + 1)
         IN  IF j = 0 THEN 0 ELSE j + 1
    ELSE 0

\* the code-span alternative (backtick, lazy any, backtick) anchored at i
MatchCodeAt(s, i) ==
    IF s[i] = Backtick
    THEN LET j == IndexOf(s, Backtick, i + 1)
         IN  IF j = 0 THEN 0 ELSE j + 1
    ELSE 0

\* (mutation: the single-asterisk alternative tried before the double one)
MatchAtItalicFirst(s, i) ==
    IF MatchItalicAt(s, i) # 0 THEN MatchItalicAt(s, i)
    ELSE IF MatchBoldAt(s, i) # 0 THEN MatchBoldAt(s, i)
    ELSE MatchCodeAt(s, i)

\* the alternation, tried in the order bold, italic, code as the regex engine does
MatchAt(s, i) ==
    IF MatchBoldAt(s, i) # 0 THEN MatchBoldAt(s, i)
    ELSE IF MatchItalicAt(s, i) # 0 THEN MatchItalicAt(s, i)
    ELSE MatchCodeAt(s, i)

RECURSIVE SplitFrom(_, _)
\* re.split with one capturing group, scanning from index i: the text before
\* the leftmost match, the match, and so on; the rest of the line at the end.
SplitFrom(s, i) ==
    LET m == MinOrZero({k \in i..Len(s) : MatchAt(s, k) # 0})
    IN  IF m = 0 THEN <<SubSeq(s, i, Len(s))>>
        ELSE <<SubSeq(s, i, m - 1), SubSeq(s, m, MatchAt(s, m) - 1)>>
             \o SplitFrom(s, MatchAt(s, m))

ReSplit(line) == SplitFrom(line, 1)

\* the if/elif chain applied to one non-empty part
Classify(part) ==
    IF StartsWith(part, <<"*", "*">>) /\ EndsWith(part, <<"*", "*">>)
    THEN [style |-> "bold", content |-> SliceMid(part, 2, 2), part |-> part]
    ELSE IF StartsWith(part, <<"*">>) /\ EndsWith(part, <<"*">>)
    THEN [style |-> "italic", content |-> SliceMid(part, 1, 1), part |-> part]
    ELSE IF StartsWith(part, <<Backtick>>) /\ EndsWith(part, <<Backtick>>)
    THEN [style |-> "code", content |-> SliceMid(part, 1, 1), part |-> part]
    ELSE [style |-> "literal", content |-> part, part |-> part]

RECURSIVE ClassifyAll(_)
\* for part in parts: if not part: continue; ...
ClassifyAll(parts) ==
    IF parts = <<>> THEN <<>>
    ELSE IF Head(parts) = <<>> THEN ClassifyAll(Tail(parts))
    ELSE <<Classify(Head(parts))>> \o ClassifyAll(Tail(parts))

Tokenize(line) == ClassifyAll(ReSplit(line))

(***************************************************************************)
(* Character sets and the re-encodings the code applies before writing.    *)
(* A character outside ASCII is written by its code point name.            *)
(***************************************************************************)
Latin1NonAscii == {"U00E9"}                         \* e with acute accent
NonLatin1 == {"U2022", "U25E6", "U25AA", "U4E2D"}   \* the three bullets, a CJK character

\* text.encode('latin-1', 'replace').decode('latin-1')
Latin1Replace(s) == [i \in 1..Len(s) |-> IF s[i] \in NonLatin1 THEN "?" ELSE s[i]]

\* text.encode('ascii', 'replace').decode('ascii')
AsciiReplace(s) ==
    [i \in 1..Len(s) |-> IF s[i] \in NonLatin1 \cup Latin1NonAscii THEN "?" ELSE s[i]]

\* str.split(sep) for a one-character separator: never empty, keeps empty words
SplitOn(s, sep) ==
    LET at == {j \in 1..Len(s) : s[j] = sep}
        \* the i-th separator; the start and the end of the line stand for two more
        nth(i) == IF i = 0 THEN 0
                  ELSE IF i > Cardinality(at) THEN Len(s) + 1
                  ELSE CHOOSE j \in at : Cardinality({k \in at : k < j}) = i - 1
    IN  [i \in 1..(Cardinality(at) + 1) |-> SubSeq(s, nth(i - 1) + 1, nth(i) - 1)]

(***************************************************************************)
(* Page sink (FPDF).  The cursor is (x, y); every write advances x by the  *)
(* measured width of its text; ln moves to the left margin of a new line.  *)
(* Lengths are millimetres, the default page is A4 with 10 mm margins.     *)
(***************************************************************************)
PageW == 210
LMargin == 10
RMargin == 10
TMargin == 10

\* width of one glyph in the given font <<family, style, size>>
CharWidth(font) == IF font[1] = "Courier" THEN 2 ELSE (font[3] + 5) \div 6

\* pdf.get_string_width(s)
GetStringWidth(f, s) == Len(s) * CharWidth(f.font)

Call(op, f, text, arg) ==
    [op |-> op, text |-> text, x |-> f.x, y |-> f.y, font |-> f.font, arg |-> arg]

\* FPDF(); add_page(); set_font(family, size=12)
PdfNew(family) ==
    [x |-> LMargin, y |-> TMargin, lasth |-> 0, font |-> <<family, <<>>, 12>>,
     calls |-> <<>>, faults |-> <<>>, raised |-> FALSE]

\* pdf.set_font(family, style, size)
PdfSetFont(f, family, style, size) ==
    [f EXCEPT !.font = <<family, style, size>>,
              !.calls = Append(@, [Call("set_font", f, <<>>, size)
                                      EXCEPT !.font = <<family, style, size>>])]

\* pdf.set_fill_color(g, g, g)
PdfSetFillColor(f, g) == [f EXCEPT !.calls = Append(@, Call("set_fill_color", f, <<>>, g))]

\* pdf.write(h, txt)
PdfWrite(f, h, txt) ==
    [f EXCEPT !.x = @ + GetStringWidth(f, txt),
              !.lasth = h,
              !.calls = Append(@, Call("write", f, txt, h))]

\* pdf.ln(h)
PdfLn(f, h) ==
    [f EXCEPT !.x = LMargin, !.y = @ + h, !.calls = Append(@, Call("ln", f, <<>>, h))]

\* pdf.ln(): the height of the last printed cell
PdfLnLast(f) == PdfLn(f, f.lasth)

\* pdf.set_x(x)
PdfSetX(f, x) == [f EXCEPT !.x = x, !.calls = Append(@, Call("set_x", f, <<>>, x))]

\* pdf.multi_cell(w, h, txt): a block of lines of width w, the cursor ends at
\* the left margin below the block
PdfMultiCell(f, w, h, txt) ==
    LET width == GetStringWidth(f, txt)
        nlines == IF width <= w \/ w <= 0 THEN 1 ELSE (width + w - 1) \div w
    IN  [f EXCEPT !.x = LMargin, !.y = @ + h * nlines, !.lasth = h,
                  !.calls = Append(@, Call("multi_cell", f, txt, h))]

\* a write raises when a core (latin-1) font meets a character outside latin-1,
\* and whenever the sink fails for a reason of its own: f.faults tells, for the
\* write attempts to come, which of them the sink fails
WriteRaises(f, txt) ==
    \/ f.font[1] # "DejaVu" /\ \E i \in 1..Len(txt) : txt[i] \in NonLatin1
    \/ f.faults # <<>> /\ Head(f.faults)

\* the sink has answered one write attempt
Attempted(f) == [f EXCEPT !.faults = IF @ = <<>> THEN @ ELSE Tail(@)]

\* try: pdf.write(5, txt)  except: pdf.write(5, fallback)
\* f.raised: an exception has left the except clause and unwinds the conversion
TryWrite(f, txt, fallback) ==
    IF f.raised THEN f
    ELSE IF ~WriteRaises(f, txt) THEN PdfWrite(Attempted(f), 5, txt)
    ELSE IF ~WriteRaises(Attempted(f), fallback)
    THEN PdfWrite(Attempted(Attempted(f)), 5, fallback)
    ELSE [Attempted(Attempted(f)) EXCEPT !.raised = TRUE]

(***************************************************************************)
(* HTMLToPDFParser (create_html_pdf).  A parser state S is the pair of the *)
(* parser's fields S.p and the page sink S.f.                              *)
(***************************************************************************)
base_indent == 10
bullet_width == 15

Headings == {"h1", "h2", "h3", "h4", "h5", "h6"}
HeadingLevel(tag) ==
    CASE tag = "h1" -> 1 [] tag = "h2" -> 2 [] tag = "h3" -> 3
      [] tag = "h4" -> 4 [] tag = "h5" -> 5 [] tag = "h6" -> 6

Max(a, b) == IF a >= b THEN a ELSE b

\* HTMLToPDFParser.__init__, then parser.unicode_support = unicode_support
HpNew(unicode_support) ==
    [font_stack |-> << <<"Helvetica", <<>>, 12>> >>,
     in_code |-> FALSE,
     in_pre |-> FALSE,
     list_stack |-> <<>>,
     list_counters |-> <<>>,
     list_indent_level |-> 0,
     current_text |-> <<>>,
     unicode_support |-> unicode_support,
     last_was_block_element |-> FALSE,
     in_list_item |-> FALSE,
     list_item_first_line |-> TRUE]

\* get_current_indent
GetCurrentIndentFlat(S) == LMargin + base_indent

GetCurrentIndent(S) == LMargin + (S.p.list_indent_level * base_indent)

Last(q) == q[Len(q)]
Front(q) == SubSeq(q, 1, Len(q) - 1)

\* after a line has been written inside the word loop of flush_text
HpWrapLine(S, current_line) ==
    LET f1 == TryWrite(S.f, current_line, AsciiReplace(current_line))
        f2 == PdfLnLast(f1)
    IN  IF S.p.in_list_item
        THEN [p |-> [S.p EXCEPT !.list_item_first_line = FALSE],
              f |-> PdfSetX(f2, GetCurrentIndent(S) + bullet_width)]
        ELSE [p |-> S.p, f |-> PdfSetX(f2, LMargin)]

RECURSIVE HpWordLoop(_, _, _, _)
\* for word in words: ... ; returns the state and the line left to write
HpWordLoop(S, words, current_line, available_width) ==
    IF words = <<>> THEN [S |-> S, current_line |-> current_line]
    ELSE LET word == Head(words)
             test_line == current_line \o (IF current_line # <<>> THEN <<" ">> ELSE <<>>) \o word
             test_width == GetStringWidth(S.f, test_line)
         IN  IF test_width <= available_width \/ current_line = <<>>
             THEN HpWordLoop(S, Tail(words), test_line, available_width)
             ELSE HpWordLoop(HpWrapLine(S, current_line), Tail(words), word, available_width)

\* flush_text after its word loop; r is the state and the line left to write
HpFlushRest(r) ==
    [p |-> [r.S.p EXCEPT !.current_text = <<>>,
                         !.last_was_block_element = FALSE,
                         !.list_item_first_line =
                             IF r.S.p.in_list_item THEN FALSE ELSE @],
     f |-> IF r.current_line # <<>>
           THEN TryWrite(r.S.f, r.current_line \o <<" ">>,
                         AsciiReplace(r.current_line) \o <<" ">>)
           ELSE r.S.f]

\* HTMLToPDFParser.flush_text
HpFlushText(S) ==
    IF Strip(S.p.current_text) = <<>> THEN S
    ELSE
      LET stripped == Strip(S.p.current_text)
          safe_text == IF ~S.p.unicode_support THEN Latin1Replace(stripped) ELSE stripped
          current_indent == GetCurrentIndent(S)
          available_width ==
              IF S.p.in_list_item
              THEN PageW - current_indent - bullet_width - RMargin
              ELSE PageW - LMargin - RMargin
          S1 == IF S.p.in_list_item /\ ~S.p.list_item_first_line
                THEN [S EXCEPT !.f = PdfSetX(S.f, current_indent + bullet_width)]
                ELSE S
      IN  HpFlushRest(HpWordLoop(S1, SplitOn(safe_text, " "), <<>>, available_width))

\* roman_numerals
roman_numerals ==
    << <<"i">>, <<"i", "i">>, <<"i", "i", "i">>, <<"i", "v">>, <<"v">>, <<"v", "i">>,
       <<"v", "i", "i">>, <<"v", "i", "i", "i">>, <<"i", "x">>, <<"x">> >>

Letters == <<"a", "b", "c", "d", "e", "f", "g", "h", "i", "j", "k", "l", "m",
             "n", "o", "p", "q", "r", "s", "t", "u", "v", "w", "x", "y", "z">>
Digits == <<"0", "1", "2", "3", "4", "5", "6", "7", "8", "9">>

RECURSIVE Decimal(_)
\* str(n) for n >= 0
Decimal(n) == IF n < 10 THEN <<Digits[n + 1]>> ELSE Decimal(n \div 10) \o <<Digits[(n % 10) + 1]>>

ItemN(counter) == <<"i", "t", "e", "m">> \o Decimal(counter)

\* number_text of an ordered item (mutation: the level is ignored)
NumberTextFlat(level, counter) == Decimal(counter) \o <<".", " ">>

\* number_text (mutation: chr(ord('a') + counter - 1) without the test counter <= 26)
NumberTextUnguarded(level, counter) ==
    IF level = 2
    THEN <<IF counter <= 26 THEN Letters[counter] ELSE "{">> \o <<")", " ">>
    ELSE IF level = 3
    THEN (IF counter <= Len(roman_numerals) THEN roman_numerals[counter] ELSE ItemN(counter))
         \o <<".", " ">>
    ELSE Decimal(counter) \o <<".", " ">>

\* number_text of an ordered item at list_indent_level level
NumberText(level, counter) ==
    IF level = 1 THEN Decimal(counter) \o <<".", " ">>
    ELSE IF level = 2
    THEN (IF counter <= 26 THEN <<Letters[counter]>> ELSE ItemN(counter)) \o <<")", " ">>
    ELSE IF level = 3
    THEN (IF counter <= Len(roman_numerals) THEN roman_numerals[counter] ELSE ItemN(counter))
         \o <<".", " ">>
    ELSE Decimal(counter) \o <<".", " ">>

\* bullet_char of an unordered item (mutation: the level is ignored)
BulletCharFlat(level, unicode_support) ==
    IF unicode_support THEN <<"U2022", " ">> ELSE <<"*", " ">>

\* bullet_char of an unordered item
BulletChar(level, unicode_support) ==
    IF level = 1 THEN (IF unicode_support THEN <<"U2022", " ">> ELSE <<"*", " ">>)
    ELSE IF level = 2 THEN (IF unicode_support THEN <<"U25E6", " ">> ELSE <<"-", " ">>)
    ELSE (IF unicode_support THEN <<"U25AA", " ">> ELSE <<"+", " ">>)

\* handle_starttag, tag == 'li'
HpStartLi(S) ==
    LET p1 == [S.p EXCEPT !.in_list_item = TRUE, !.list_item_first_line = TRUE]
        f1 == IF S.f.x > LMargin THEN PdfLnLast(S.f) ELSE S.f
        f2 == PdfSetX(f1, GetCurrentIndent(S))
    IN  IF S.p.list_stack # <<>>
        THEN IF Last(S.p.list_stack) = "ol"
             THEN LET counter == Last(S.p.list_counters) + 1
                      number_text == NumberText(S.p.list_indent_level, counter)
                  IN  [p |-> [p1 EXCEPT !.list_counters[Len(S.p.list_counters)] = counter],
                       f |-> TryWrite(f2, number_text, AsciiReplace(number_text))]
             ELSE [p |-> p1,
                   f |-> TryWrite(f2, BulletChar(S.p.list_indent_level, S.p.unicode_support),
                                  <<"-", " ">>)]
        ELSE [p |-> p1, f |-> TryWrite(f2, <<"U2022", " ">>, <<"-", " ">>)]

\* handle_starttag, tag in ('ul', 'ol')
HpStartList(S, tag) ==
    [p |-> [S.p EXCEPT !.list_stack = Append(@, tag),
                       !.list_counters = Append(@, 0),
                       !.list_indent_level = @ + 1,
                       !.last_was_block_element = TRUE],
     f |-> IF S.p.list_indent_level = 0 /\ ~S.p.last_was_block_element
           THEN PdfLn(S.f, 4) ELSE S.f]

\* handle_starttag for a bold or italic tag; letter is 'B' or 'I'
HpPushStyle(S, letter) ==
    LET current_font == Last(S.p.font_stack)
        has == \E i \in 1..Len(current_font[2]) : current_font[2][i] = letter
        new_style == IF has THEN current_font[2] ELSE Append(current_font[2], letter)
    IN  [p |-> [S.p EXCEPT !.font_stack = Append(@, <<current_font[1], new_style, current_font[3]>>)],
         f |-> PdfSetFont(S.f, current_font[1], new_style, current_font[3])]

\* handle_starttag after its first statement, self.flush_text()
HpStartTagFlushed(S, tag) ==
        IF tag \in Headings
        THEN LET f1 == IF ~S.p.last_was_block_element /\ S.f.y > 20 THEN PdfLn(S.f, 8) ELSE S.f
                 size == Max(16 - (HeadingLevel(tag) - 1) * 2, 10)
             IN  [p |-> [S.p EXCEPT !.last_was_block_element = TRUE],
                  f |-> PdfSetFont(f1, "Helvetica", <<"B">>, size)]
        ELSE IF tag = "p"
        THEN [p |-> [S.p EXCEPT !.last_was_block_element = TRUE],
              f |-> IF ~S.p.last_was_block_element /\ S.f.y > 20 /\ ~S.p.in_list_item
                    THEN PdfLn(S.f, 4) ELSE S.f]
        ELSE IF tag \in {"b", "strong"} THEN HpPushStyle(S, "B")
        ELSE IF tag \in {"i", "em"} THEN HpPushStyle(S, "I")
        ELSE IF tag = "code"
        THEN [p |-> [S.p EXCEPT !.in_code = TRUE,
                                !.font_stack = Append(@, <<"Courier", <<>>, 10>>)],
              f |-> PdfSetFont(S.f, "Courier", <<>>, 10)]
        ELSE IF tag = "pre"
        THEN LET f1 == IF ~S.p.last_was_block_element THEN PdfLn(S.f, 4) ELSE S.f
             IN  [p |-> [S.p EXCEPT !.in_pre = TRUE, !.last_was_block_element = TRUE],
                  f |-> PdfSetFillColor(PdfSetFont(f1, "Courier", <<>>, 10), 240)]
        ELSE IF tag \in {"ul", "ol"} THEN HpStartList(S, tag)
        ELSE IF tag = "li" THEN HpStartLi(S)
        ELSE IF tag = "br"
        THEN LET f1 == PdfLnLast(S.f)
             IN  IF S.p.in_list_item
                 THEN [p |-> [S.p EXCEPT !.list_item_first_line = FALSE],
                       f |-> PdfSetX(f1, GetCurrentIndent(S) + bullet_width)]
                 ELSE [p |-> S.p, f |-> PdfSetX(f1, LMargin)]
        ELSE S

\* HTMLToPDFParser.handle_starttag
HpHandleStartTag(S0, tag) == HpStartTagFlushed(HpFlushText(S0), tag)

\* handle_endtag for ul and ol (mutation: the level is decremented without
\* the test of the list stack)
HpPopListUnguarded(p) ==
    [p EXCEPT !.list_stack = Front(@),
              !.list_counters = Front(@),
              !.list_indent_level = @ - 1]

\* handle_endtag for ul and ol (mutation: a nested list is closed together
\* with the list around it)
HpPopListTwo(p) ==
    IF Len(p.list_stack) >= 2
    THEN [p EXCEPT !.list_stack = Front(Front(@)),
                   !.list_counters = Front(Front(@)),
                   !.list_indent_level = @ - 2]
    ELSE IF p.list_stack # <<>>
    THEN [p EXCEPT !.list_stack = Front(@),
                   !.list_counters = Front(@),
                   !.list_indent_level = @ - 1]
    ELSE p

\* handle_endtag for ul and ol: the innermost list frame is popped, if there is one
HpPopList(p) ==
    IF p.list_stack # <<>>
    THEN [p EXCEPT !.list_stack = Front(@),
                   !.list_counters = Front(@),
                   !.list_indent_level = @ - 1]
    ELSE p

\* handle_endtag after its first statement, self.flush_text()
HpEndTagFlushed(S, tag) ==
        IF tag \in Headings
        THEN [p |-> [S.p EXCEPT !.last_was_block_element = TRUE],
              f |-> PdfSetX(PdfSetFont(PdfLn(S.f, 6), "Helvetica", <<>>, 12), LMargin)]
        ELSE IF tag = "p"
        THEN [p |-> [S.p EXCEPT !.last_was_block_element = TRUE],
              f |-> IF ~S.p.in_list_item THEN PdfSetX(PdfLn(S.f, 4), LMargin) ELSE S.f]
        ELSE IF tag \in {"b", "strong", "i", "em", "code"}
        THEN LET font_stack == IF Len(S.p.font_stack) > 1 THEN Front(S.p.font_stack)
                               ELSE S.p.font_stack
                 current_font == Last(font_stack)
             IN  [p |-> [S.p EXCEPT !.font_stack = font_stack,
                                    !.in_code = IF tag = "code" THEN FALSE ELSE @],
                  f |-> PdfSetFont(S.f, current_font[1], current_font[2], current_font[3])]
        ELSE IF tag = "pre"
        THEN [p |-> [S.p EXCEPT !.in_pre = FALSE, !.last_was_block_element = TRUE],
              f |-> PdfSetX(PdfLn(PdfSetFont(PdfSetFillColor(S.f, 255), "Helvetica", <<>>, 12),
                                  6), LMargin)]
        ELSE IF tag \in {"ul", "ol"}
        THEN LET p1 == HpPopList(S.p)
             IN  IF p1.list_indent_level = 0
                 THEN [p |-> [p1 EXCEPT !.last_was_block_element = TRUE],
                       f |-> PdfSetX(PdfLn(S.f, 4), LMargin)]
                 ELSE [p |-> p1, f |-> S.f]
        ELSE IF tag = "li"
        THEN [p |-> [S.p EXCEPT !.in_list_item = FALSE, !.list_item_first_line = TRUE],
              f |-> PdfLnLast(S.f)]
        ELSE S

\* HTMLToPDFParser.handle_endtag
HpHandleEndTag(S0, tag) == HpEndTagFlushed(HpFlushText(S0), tag)

\* html.unescape: a character reference, written as one element, becomes its character
Unescape(data) ==
    [i \in 1..Len(data) |->
        CASE data[i] = "&amp;" -> "&"
          [] data[i] = "&lt;" -> "<"
          [] data[i] = "&bull;" -> "U2022"
          [] OTHER -> data[i]]

\* HTMLToPDFParser.handle_data
\* handle_data (mutation: the text received replaces the text that is waiting)
HpHandleDataReplace(S, data0) ==
    LET data == Unescape(data0)
    IN  IF Strip(data) # <<>>
        THEN [S EXCEPT !.p.current_text = Strip(data) \o <<" ">>]
        ELSE S

HpHandleData(S, data0) ==
    LET data == Unescape(data0)
    IN  IF Strip(data) # <<>>
        THEN [S EXCEPT !.p.current_text = @ \o Strip(data) \o <<" ">>]
        ELSE S

(***************************************************************************)
(* Flow sink (python-docx): the document is the sequence of its            *)
(* paragraphs, a paragraph holds its runs in the order they were added.    *)
(***************************************************************************)
PlainRun(text) ==
    [text |-> text, bold |-> FALSE, italic |-> FALSE, font |-> "", size |-> 0,
     shaded |-> FALSE, brk |-> FALSE]

Paragraph(kind, level, style, runs) ==
    [kind |-> kind, level |-> level, style |-> style, runs |-> runs,
     shaded |-> FALSE, space_before |-> 0]

\* doc.add_heading(text, level): a heading paragraph with one run of the text
DocAddHeading(d, text, level) ==
    Append(d, Paragraph("heading", level, "Heading",
                        IF text = <<>> THEN <<>> ELSE <<PlainRun(text)>>))

\* doc.add_paragraph(style=style)
DocAddParagraph(d, style) == Append(d, Paragraph("paragraph", 0, style, <<>>))

\* paragraph k .add_run(run)
DocAddRun(d, k, r) == [d EXCEPT ![k].runs = Append(@, r)]

(***************************************************************************)
(* create_styled_docx, one line of the input at a time.                    *)
(***************************************************************************)
Fence == <<Backtick, Backtick, Backtick>>

\* (mutation: every token becomes a plain run)
RunOfTokenPlain(t) == PlainRun(t.content)

\* the run a token becomes (p.add_run(...) and the attributes set on it)
RunOfToken(t) ==
    IF t.style = "bold" THEN [PlainRun(t.content) EXCEPT !.bold = TRUE]
    ELSE IF t.style = "italic" THEN [PlainRun(t.content) EXCEPT !.italic = TRUE]
    ELSE IF t.style = "code"
    THEN [PlainRun(t.content) EXCEPT !.font = "Courier New", !.shaded = TRUE]
    ELSE PlainRun(t.content)

\* runs of the inline tokens of text, added to the last paragraph of d
DocAddTokenRuns(d, text) ==
    LET toks == Tokenize(text)
    IN  [d EXCEPT ![Len(d)].runs = @ \o [i \in 1..Len(toks) |-> RunOfToken(toks[i])]]

\* the paragraph of one line of a code block
CodeParagraph(line, first) ==
    [kind |-> "paragraph", level |-> 0, style |-> "No Spacing",
     runs |-> <<[PlainRun(line) EXCEPT !.font = "Courier New", !.size = 10]>>,
     shaded |-> TRUE, space_before |-> IF first THEN 6 ELSE 2]

\* (mutation: the line is not stripped before it is classified)
MdDocxPlainLineNoStrip(d, raw) ==
    IF StartsWith(raw, <<"#", " ">>) THEN DocAddHeading(d, SliceFrom(raw, 2), 1)
    ELSE IF StartsWith(raw, <<"*", " ">>) \/ StartsWith(raw, <<"-", " ">>)
    THEN DocAddTokenRuns(DocAddParagraph(d, "List Bullet"), SliceFrom(raw, 2))
    ELSE IF raw # <<>> THEN DocAddTokenRuns(DocAddParagraph(d, "Normal"), raw)
    ELSE d

\* (mutation: any number of leading '#' makes a heading, of level 3 at most)
MdDocxPlainLineDeepHeading(d, raw) ==
    LET line == Strip(raw)
    IN  IF StartsWith(line, <<"#", " ">>) THEN DocAddHeading(d, SliceFrom(line, 2), 1)
        ELSE IF StartsWith(line, <<"#", "#", " ">>) THEN DocAddHeading(d, SliceFrom(line, 3), 2)
        ELSE IF StartsWith(line, <<"#", "#", "#", " ">>)
        THEN DocAddHeading(d, SliceFrom(line, 4), 3)
        ELSE IF StartsWith(line, <<"#", "#", "#", "#", " ">>)
        THEN DocAddHeading(d, SliceFrom(line, 5), 3)
        ELSE IF StartsWith(line, <<"*", " ">>) \/ StartsWith(line, <<"-", " ">>)
        THEN DocAddTokenRuns(DocAddParagraph(d, "List Bullet"), SliceFrom(line, 2))
        ELSE IF line # <<>> THEN DocAddTokenRuns(DocAddParagraph(d, "Normal"), line)
        ELSE d

\* create_styled_docx, a line outside a code block
MdDocxPlainLine(d, raw) ==
    LET line == Strip(raw)
    IN  IF StartsWith(line, <<"#", " ">>) THEN DocAddHeading(d, SliceFrom(line, 2), 1)
        ELSE IF StartsWith(line, <<"#", "#", " ">>) THEN DocAddHeading(d, SliceFrom(line, 3), 2)
        ELSE IF StartsWith(line, <<"#", "#", "#", " ">>)
        THEN DocAddHeading(d, SliceFrom(line, 4), 3)
        ELSE IF StartsWith(line, <<"*", " ">>) \/ StartsWith(line, <<"-", " ">>)
        THEN DocAddTokenRuns(DocAddParagraph(d, "List Bullet"), SliceFrom(line, 2))
        ELSE IF line # <<>> THEN DocAddTokenRuns(DocAddParagraph(d, "Normal"), line)
        ELSE d

\* (mutation: lines of a code block classified like the others)
MdDocxLineNoCodeMode(m, d, line) ==
    IF StartsWith(Strip(line), Fence)
    THEN [m |-> [m EXCEPT !.in_code_block = ~@], d |-> d]
    ELSE [m |-> m, d |-> MdDocxPlainLine(d, line)]

\* the body of the loop of create_styled_docx for one line
MdDocxLine(m, d, line) ==
    IF StartsWith(Strip(line), Fence)
    THEN IF ~m.in_code_block
         THEN [m |-> [m EXCEPT !.in_code_block = TRUE, !.code_block_started = TRUE], d |-> d]
         ELSE [m |-> [m EXCEPT !.in_code_block = FALSE, !.code_block_started = FALSE],
               d |-> DocAddParagraph(d, "Normal")]
    ELSE IF m.in_code_block
    THEN [m |-> [m EXCEPT !.code_block_started = FALSE],
          d |-> Append(d, CodeParagraph(line, m.code_block_started))]
    ELSE [m |-> m, d |-> MdDocxPlainLine(d, line)]

(***************************************************************************)
(* HTMLToDocxParser (create_html_docx).  A parser state S is the pair of   *)
(* the parser's fields S.p and the document S.d; a paragraph is known by   *)
(* its index in the document, 0 stands for None.  S.rejected tells which   *)
(* shading calls the document library rejects: those for a run whose       *)
(* position in its paragraph is in the set.                                *)
(***************************************************************************)
HdNew ==
    [current_paragraph |-> 0, current_run |-> 0, style_stack |-> <<>>, in_list |-> FALSE,
     list_stack |-> <<>>, list_counters |-> <<>>, current_text |-> <<>>,
     pending_paragraph |-> FALSE]

\* x in list
In(x, q) == \E i \in 1..Len(q) : q[i] = x

\* list.remove(x): the first x is taken out
RemoveFirst(q, x) ==
    LET k == IndexOf(q, x, 1)
    IN  IF k = 0 THEN q ELSE SubSeq(q, 1, k - 1) \o SubSeq(q, k + 1, Len(q))

\* self.current_paragraph = self.doc.add_paragraph(style=style)
HdNewParagraph(S, style) ==
    [S EXCEPT !.p.current_paragraph = Len(S.d) + 1,
              !.d = DocAddParagraph(S.d, style)]

\* self.doc.add_paragraph(), a paragraph for spacing
HdSpacing(S) == [S EXCEPT !.d = DocAddParagraph(S.d, "Normal")]

\* HTMLToDocxParser._ensure_paragraph
HdEnsureParagraph(S) == IF S.p.current_paragraph = 0 THEN HdNewParagraph(S, "Normal") ELSE S

\* HTMLToDocxParser._ensure_run
HdEnsureRun(S) ==
    IF S.p.current_run = 0
    THEN LET S1 == HdEnsureParagraph(S)
         IN  [S1 EXCEPT !.p.current_run = S1.p.current_paragraph]
    ELSE S

\* the run flush_text adds for the text, formatted by the style stack
HdRun(text, style_stack) ==
    LET code == In("code", style_stack) \/ In("pre", style_stack)
    IN  [text |-> text, bold |-> In("bold", style_stack), italic |-> In("italic", style_stack),
         font |-> IF code THEN "Courier New" ELSE "", size |-> IF code THEN 10 ELSE 0,
         shaded |-> code, brk |-> FALSE]

\* run._element.get_or_add_rPr().append(shading_elm) raises for the run that
\* is about to be added to paragraph k
ShadingRaises(S, k) == (Len(S.d[k].runs) + 1) \in S.rejected

\* try: the shading of the run; except: pass
HdShade(r, raises) == IF raises THEN [r EXCEPT !.shaded = FALSE] ELSE r

\* flush_text (mutation: the shading is applied before the run is added, and
\* its failure ends the flush)
HdFlushTextShadeFirst(S) ==
    IF Strip(S.p.current_text) = <<>> THEN S
    ELSE LET S1 == HdEnsureRun(HdEnsureParagraph(S))
             text_to_add == Strip(S1.p.current_text)
             new_run == HdRun(text_to_add, S1.p.style_stack)
         IN  IF new_run.shaded /\ ShadingRaises(S1, S1.p.current_run) THEN S1
             ELSE [S1 EXCEPT !.p.current_text = <<>>,
                             !.d = DocAddRun(S1.d, S1.p.current_run, new_run)]

\* HTMLToDocxParser.flush_text
HdFlushText(S) ==
    IF Strip(S.p.current_text) = <<>> THEN S
    ELSE LET S1 == HdEnsureRun(HdEnsureParagraph(S))
             text_to_add == Strip(S1.p.current_text)
             new_run == HdRun(text_to_add, S1.p.style_stack)
             raises == new_run.shaded /\ ShadingRaises(S1, S1.p.current_run)
         IN  [S1 EXCEPT !.p.current_text = <<>>,
                        !.d = DocAddRun(S1.d, S1.p.current_run, HdShade(new_run, raises))]

\* handle_starttag for the inline tags: the style is pushed, a run is ensured
HdPushStyle(S, style) == HdEnsureRun([S EXCEPT !.p.style_stack = Append(@, style)])

\* handle_starttag for ul and ol (mutation: a nested list goes on counting
\* where the enclosing list stands)
HdStartListInherit(S, kind) ==
    LET S1 == [S EXCEPT !.p.in_list = TRUE,
                        !.p.list_stack = Append(@, kind),
                        !.p.list_counters =
                            Append(@, IF @ = <<>> THEN 0 ELSE Last(@))]
    IN  IF Len(S1.d) > 0 /\ S1.p.current_paragraph = 0 THEN HdSpacing(S1) ELSE S1

\* handle_starttag for ul and ol
HdStartList(S, kind) ==
    LET S1 == [S EXCEPT !.p.in_list = TRUE,
                        !.p.list_stack = Append(@, kind),
                        !.p.list_counters = Append(@, 0)]
    IN  IF Len(S1.d) > 0 /\ S1.p.current_paragraph = 0 THEN HdSpacing(S1) ELSE S1

\* the paragraph style of an <li> (mutation: the outermost open list decides)
HdLiStyleOutermost(list_stack) ==
    IF list_stack # <<>> /\ Head(list_stack) = "number" THEN "List Number" ELSE "List Bullet"

\* the paragraph style of an <li>: list_type = self.list_stack[-1] decides, and
\* without a list the item is a bullet
HdLiStyle(list_stack) ==
    IF list_stack # <<>> /\ Last(list_stack) = "number" THEN "List Number" ELSE "List Bullet"

\* HTMLToDocxParser.handle_starttag
HdHandleStartTag(S0, tag) ==
    LET S == HdFlushText(S0)
    IN  IF tag \in Headings
        THEN LET S1 == IF Len(S.d) > 0 THEN HdSpacing(S) ELSE S
             IN  [S1 EXCEPT !.p.current_paragraph = Len(S1.d) + 1, !.p.current_run = 0,
                            !.d = DocAddHeading(S1.d, <<>>, HeadingLevel(tag))]
        ELSE IF tag = "p"
        THEN LET S1 == IF S.p.current_paragraph = 0 \/ Len(S.d) > 0
                       THEN HdNewParagraph(S, "Normal") ELSE S
             IN  [S1 EXCEPT !.p.current_run = 0]
        ELSE IF tag \in {"b", "strong"} THEN HdPushStyle(S, "bold")
        ELSE IF tag \in {"i", "em"} THEN HdPushStyle(S, "italic")
        ELSE IF tag = "code" THEN HdPushStyle(S, "code")
        ELSE IF tag = "pre"
        THEN LET S1 == IF Len(S.d) > 0 THEN HdSpacing(S) ELSE S
             IN  HdPushStyle(HdNewParagraph(S1, "No Spacing"), "pre")
        ELSE IF tag = "ul" THEN HdStartList(S, "bullet")
        ELSE IF tag = "ol" THEN HdStartList(S, "number")
        ELSE IF tag = "li"
        THEN LET numbered == S.p.list_stack # <<>> /\ Last(S.p.list_stack) = "number"
                 S1 == IF numbered
                       THEN [S EXCEPT !.p.list_counters[Len(S.p.list_counters)] = @ + 1]
                       ELSE S
                 S2 == HdNewParagraph(S1, HdLiStyle(S.p.list_stack))
             IN  [S2 EXCEPT !.p.current_run = 0]
        ELSE IF tag = "br"
        THEN LET S1 == HdEnsureParagraph(S)
             IN  [S1 EXCEPT !.d = DocAddRun(S1.d, S1.p.current_paragraph,
                                            [PlainRun(<<>>) EXCEPT !.brk = TRUE])]
        ELSE S

\* handle_endtag for b, strong, i, em and code: the top of the style stack is
\* popped when it is one of the inline styles
HdPopStyle(style_stack) ==
    IF style_stack # <<>> /\ Last(style_stack) \in {"bold", "italic", "code"}
    THEN Front(style_stack) ELSE style_stack

\* handle_endtag for ul and ol (mutation: only the kind is popped)
HdPopListKindOnly(S) ==
    IF S.p.list_stack # <<>> THEN [S EXCEPT !.p.list_stack = Front(@)] ELSE S

\* handle_endtag for ul and ol: the innermost list frame is popped, if there is one
HdPopList(S) ==
    IF S.p.list_stack # <<>>
    THEN [S EXCEPT !.p.list_stack = Front(@), !.p.list_counters = Front(@)]
    ELSE S

\* HTMLToDocxParser.handle_endtag
HdHandleEndTag(S0, tag) ==
    LET S == HdFlushText(S0)
    IN  IF tag \in Headings \cup {"p", "li"}
        THEN [S EXCEPT !.p.current_paragraph = 0, !.p.current_run = 0]
        ELSE IF tag \in {"b", "strong", "i", "em", "code"}
        THEN [S EXCEPT !.p.style_stack = HdPopStyle(@), !.p.current_run = 0]
        ELSE IF tag = "pre"
        THEN HdSpacing([S EXCEPT !.p.style_stack = RemoveFirst(@, "pre"),
                                 !.p.current_paragraph = 0, !.p.current_run = 0])
        ELSE IF tag \in {"ul", "ol"}
        THEN LET S1 == HdPopList(S)
                 S2 == [S1 EXCEPT !.p.in_list = Len(S1.p.list_stack) > 0]
             IN  IF ~S2.p.in_list THEN HdSpacing(S2) ELSE S2
        ELSE S

\* HTMLToDocxParser.handle_data
HdHandleData(S, data0) ==
    LET data == Unescape(data0)
    IN  IF Strip(data) # <<>>
        THEN [S EXCEPT !.p.current_text = @ \o Strip(data) \o <<" ">>]
        ELSE S

(***************************************************************************)
(* process_pdf_inline_styles_safe and create_styled_pdf.                   *)
(***************************************************************************)
\* the font <<family, style, size>> of a token
FontOfToken(t) ==
    IF t.style = "bold" THEN <<"Helvetica", <<"B">>, 12>>
    ELSE IF t.style = "italic" THEN <<"Helvetica", <<"I">>, 12>>
    ELSE IF t.style = "code" THEN <<"Courier", <<>>, 10>>
    ELSE <<"Helvetica", <<>>, 12>>

RECURSIVE PdfWrapWordsNoReset(_, _, _)
\* (mutation: the blank after the word is not measured, x is not reset)
PdfWrapWordsNoReset(f, words, indent) ==
    IF words = <<>> THEN f
    ELSE LET word_to_write == Head(words) \o <<" ">>
             word_width == GetStringWidth(f, Head(words))
         IN  IF f.x + word_width > PageW - RMargin
             THEN PdfWrapWordsNoReset(PdfWrite(PdfLnLast(f), 5, word_to_write),
                                      Tail(words), indent)
             ELSE PdfWrapWordsNoReset(PdfWrite(f, 5, word_to_write), Tail(words), indent)

RECURSIVE PdfWrapWords(_, _, _)
\* for word in words: break the line before a word that does not fit
PdfWrapWords(f, words, indent) ==
    IF words = <<>> THEN f
    ELSE LET word_to_write == Head(words) \o <<" ">>
             word_width == GetStringWidth(f, word_to_write)
         IN  IF f.x + word_width > PageW - RMargin
             THEN PdfWrapWords(PdfWrite(PdfSetX(PdfLnLast(f), indent), 5, word_to_write),
                               Tail(words), indent)
             ELSE PdfWrapWords(PdfWrite(f, 5, word_to_write), Tail(words), indent)

RECURSIVE PdfWriteTokens(_, _, _)
\* for part in parts
PdfWriteTokens(f, toks, indent) ==
    IF toks = <<>> THEN f
    ELSE LET t == Head(toks)
             font == FontOfToken(t)
             safe_content == Latin1Replace(t.content)
             f1 == PdfSetFont(f, font[1], font[2], font[3])
         IN  PdfWriteTokens(PdfWrapWords(f1, SplitOn(safe_content, " "), indent),
                            Tail(toks), indent)

\* process_pdf_inline_styles_safe(pdf, line, indent); no sink call of the try
\* block raises on the latin-1 text it is given
ProcessPdfInlineStylesSafe(f, line, indent) ==
    PdfSetFont(PdfWriteTokens(f, Tokenize(line), indent), "Helvetica", <<>>, 12)

\* a heading line of create_styled_pdf
MdPdfHeading(f, text, size, h, after) ==
    PdfLn(PdfMultiCell(PdfSetFont(f, "Helvetica", <<"B">>, size),
                       PageW - 2 * LMargin, h, Latin1Replace(Strip(text))), after)

\* the body of the loop of create_styled_pdf for one line
MdPdfLine(m, f, raw) ==
    LET line == Strip(raw)
    IN  IF StartsWith(line, Fence)
        THEN IF ~m.in_code_block
             THEN [m |-> [m EXCEPT !.in_code_block = TRUE],
                   f |-> PdfLn(PdfSetFillColor(PdfSetFont(f, "Courier", <<>>, 10), 240), 2)]
             ELSE [m |-> [m EXCEPT !.in_code_block = FALSE],
                   f |-> PdfLn(PdfSetFillColor(PdfSetFont(f, "Helvetica", <<>>, 12), 255), 5)]
        ELSE IF m.in_code_block
        THEN [m |-> m,
              f |-> PdfMultiCell(PdfSetX(f, LMargin), PageW - 2 * LMargin, 5,
                                 Latin1Replace(raw))]
        ELSE IF line = <<>> THEN [m |-> m, f |-> PdfLn(f, 5)]
        ELSE IF StartsWith(line, <<"#", " ">>)
        THEN [m |-> m, f |-> MdPdfHeading(f, SliceFrom(line, 2), 16, 8, 4)]
        ELSE IF StartsWith(line, <<"#", "#", " ">>)
        THEN [m |-> m, f |-> MdPdfHeading(f, SliceFrom(line, 3), 14, 7, 3)]
        ELSE IF StartsWith(line, <<"#", "#", "#", " ">>)
        THEN [m |-> m, f |-> MdPdfHeading(f, SliceFrom(line, 4), 12, 6, 2)]
        ELSE IF StartsWith(line, <<"*", " ">>) \/ StartsWith(line, <<"-", " ">>)
        THEN LET f1 == PdfSetX(f, LMargin)
                 initial_x == f1.x
                 f2 == PdfWrite(f1, 5, <<"-", " ">>)
                 item == Strip(SliceFrom(line, 2))
                 f3 == ProcessPdfInlineStylesSafe(f2, item, initial_x + 5)
             IN  [m |-> [m EXCEPT !.line = item, !.indent = initial_x + 5,
                                  !.from = Len(f2.calls), !.to = Len(f3.calls)],
                  f |-> PdfLnLast(f3)]
        ELSE LET f1 == PdfSetX(f, LMargin)
                 f3 == ProcessPdfInlineStylesSafe(f1, line, LMargin)
             IN  [m |-> [m EXCEPT !.line = line, !.indent = LMargin,
                                  !.from = Len(f1.calls), !.to = Len(f3.calls)],
                  f |-> PdfLnLast(f3)]

\* the number of sink calls the try block of process_pdf_inline_styles_safe
\* makes for line when none of them raises
TryCalls(f, line, indent) == Len(ProcessPdfInlineStylesSafe(f, line, indent).calls) - Len(f.calls)

\* process_pdf_inline_styles_safe(pdf, line, indent) when the sink call number
\* k + 1 of its try block raises: the k calls before it have had their effect,
\* then the except clause sets the font and writes the whole line in one block
ProcessPdfInlineStylesFailing(f, line, indent, k) ==
    LET full == ProcessPdfInlineStylesSafe(f, line, indent).calls
        done == SubSeq(full, Len(f.calls) + 1, Len(f.calls) + k)
        failing == full[Len(f.calls) + k + 1]
        f1 == [f EXCEPT !.x = failing.x, !.y = failing.y,
                        !.font = IF k = 0 THEN @ ELSE done[k].font,
                        !.lasth = IF \E i \in 1..k : done[i].op = "write" THEN 5 ELSE @,
                        !.calls = @ \o done]
        safe_text == Latin1Replace(line)
    IN  PdfMultiCell(PdfSetFont(f1, "Helvetica", <<>>, 12), PageW - 2 * LMargin, 5, safe_text)

\* the call of process_pdf_inline_styles_safe that create_styled_pdf makes for
\* a list item or a plain line: the sink at the call and the arguments
InlineCall(f, raw) ==
    LET line == Strip(raw)
    IN  IF StartsWith(line, <<"*", " ">>) \/ StartsWith(line, <<"-", " ">>)
        THEN LET f1 == PdfSetX(f, LMargin)
                 initial_x == f1.x
             IN  [f |-> PdfWrite(f1, 5, <<"-", " ">>), line |-> Strip(SliceFrom(line, 2)),
                  indent |-> initial_x + 5]
        ELSE [f |-> PdfSetX(f, LMargin), line |-> line, indent |-> LMargin]

\* the body of the loop of create_styled_pdf for a line that goes through
\* process_pdf_inline_styles_safe, the sink call number k + 1 of which raises
MdPdfLineFailing(m, f, raw, k) ==
    LET c == InlineCall(f, raw)
        f3 == ProcessPdfInlineStylesFailing(c.f, c.line, c.indent, k)
    IN  [m |-> [m EXCEPT !.line = c.line, !.indent = c.indent,
                         !.from = Len(c.f.calls), !.to = Len(f3.calls)],
         f |-> PdfLnLast(f3)]

(***************************************************************************)
(* create_fallback_pdf and the except clauses of create_styled_pdf.        *)
(***************************************************************************)
\* "\n".join(lines): the text whose split("\n") is lines
JoinLines(lines) ==
    Concat([i \in 1..Len(lines) |-> IF i = 1 THEN lines[i] ELSE <<"\n">> \o lines[i]])

\* marker [^c]+ marker anchored at i, the marker being made of the character c:
\* the index after the match, or 0.  The greedy run ends before the next c.
MatchPairAt(s, marker, c, i) ==
    LET k == Len(marker)
        stop == IndexOf(s, c, i + k)
    IN  IF /\ i + k - 1 <= Len(s) /\ SubSeq(s, i, i + k - 1) = marker
           /\ stop > i + k
           /\ stop + k - 1 <= Len(s) /\ SubSeq(s, stop, stop + k - 1) = marker
        THEN stop + k
        ELSE 0

RECURSIVE SubPairs(_, _, _, _)
\* re.sub(marker ([^c]+) marker, r'\1', s) from index lo on
SubPairs(s, marker, c, lo) ==
    LET i == MinOrZero({j \in lo..Len(s) : MatchPairAt(s, marker, c, j) # 0})
    IN  IF i = 0 THEN SubSeq(s, lo, Len(s))
        ELSE SubSeq(s, lo, i - 1)
             \o SubSeq(s, i + Len(marker), MatchPairAt(s, marker, c, i) - Len(marker) - 1)
             \o SubPairs(s, marker, c, MatchPairAt(s, marker, c, i))

\* ^#+\s* anchored at i (MULTILINE): the index after the match, or 0
MatchHeaderAt(s, i) ==
    IF (i = 1 \/ s[i - 1] = "\n") /\ s[i] = "#"
    THEN LET after_hashes == MinOrZero({j \in i..Len(s) : s[j] # "#"})
             after_space ==
                 IF after_hashes = 0 THEN 0
                 ELSE MinOrZero({j \in after_hashes..Len(s) : s[j] \notin Whitespace})
         IN  IF after_space = 0 THEN Len(s) + 1 ELSE after_space
    ELSE 0

RECURSIVE SubHeaders(_, _)
\* re.sub(r'^#+\s*', '', s, flags=re.MULTILINE) from index lo on
SubHeaders(s, lo) ==
    LET i == MinOrZero({j \in lo..Len(s) : MatchHeaderAt(s, j) # 0})
    IN  IF i = 0 THEN SubSeq(s, lo, Len(s))
        ELSE SubSeq(s, lo, i - 1) \o SubHeaders(s, MatchHeaderAt(s, i))

\* clean_text of create_fallback_pdf: bold, italic and code markers and the
\* header marks are removed, in this order
CleanText(text) ==
    SubHeaders(SubPairs(SubPairs(SubPairs(text, <<"*", "*">>, "*", 1), <<"*">>, "*", 1),
                        <<Backtick>>, Backtick, 1), 1)

\* the try block of create_fallback_pdf when no sink call fails
FallbackPdf(text) ==
    PdfMultiCell(PdfNew("Helvetica"), PageW - 2 * LMargin, 5, Latin1Replace(CleanText(text)))

\* (mutation: create_styled_pdf has no except clause, the exception leaves it)
StyledExceptMissing(o) ==
    [pc |-> "done", out |-> [o EXCEPT !.styled_failed = TRUE, !.result = "raised"]]

\* except Exception of create_styled_pdf: return create_fallback_pdf(text)
StyledExcept(o) ==
    [pc |-> "fallback", out |-> [o EXCEPT !.styled_failed = TRUE]]

\* except Exception of create_fallback_pdf: return b"PDF generation failed"
FallbackExcept(o) ==
    [pc |-> "done", out |-> [o EXCEPT !.fallback_failed = TRUE, !.result = "sentinel"]]

(***************************************************************************)
(* Specification of the tokenizer alone: a line is drawn, the tokenizer is *)
(* applied to it.                                                          *)
(***************************************************************************)
TokAlphabet == {"a", "*", Backtick, " "}

LineBoldNested == <<"*", "*", "a", "*", "b", "*", "c", "*", "*">>       \* **a*b*c**
LineStrayTriple == <<"*", "*", "x", "*", "*", "*">>                    \* **x***
LineStrayDouble == <<"a", " ", "*", "*", " ", "b">>                    \* a ** b

TokLines == SeqsUpTo(TokAlphabet, MaxLineLen)
            \cup {LineBoldNested, LineStrayTriple, LineStrayDouble}

\* the locals of a markdown renderer; line and indent keep the arguments of
\* the last call of process_pdf_inline_styles_safe, from and to the number of
\* sink calls made before it and up to its return
NoMd ==
    [in_code_block |-> FALSE, code_block_started |-> FALSE,
     line |-> <<>>, indent |-> 0, from |-> 0, to |-> 0]
NoPdf == [x |-> 0, y |-> 0, lasth |-> 0, font |-> <<"Helvetica", <<>>, 12>>, calls |-> <<>>,
          faults |-> <<>>, raised |-> FALSE]
NoParser == [unused |-> TRUE]
NoPrev == [unused |-> TRUE]
NoEnv == [fonts |-> FALSE]
NoOut == [result |-> "none", styled_failed |-> FALSE, fallback_runs |-> 0,
          fallback_failed |-> FALSE]

InitTok ==
    /\ mode = "script"
    /\ conv = "tokenize"
    /\ input \in {<<l>> : l \in TokLines}
    /\ pos = 1
    /\ pc = "run"
    /\ md = NoMd
    /\ doc = <<>>
    /\ pdf = NoPdf
    /\ hp = NoParser
    /\ hd = NoParser
    /\ tokens = <<>>
    /\ run = 1
    /\ prev = NoPrev
    /\ out = NoOut
    /\ env = NoEnv

TokenizeLine ==
    /\ conv = "tokenize"
    /\ pc = "run"
    /\ tokens' = Tokenize(input[1])
    /\ pos' = 2
    /\ pc' = "done"
    /\ UNCHANGED <<mode, conv, input, md, doc, pdf, hp, hd, run, prev, env, out>>

NextTok == TokenizeLine

SpecTok == InitTok /\ [][NextTok]_vars

(***************************************************************************)
(* Specification of create_html_pdf: the parser is fed the events of the   *)
(* input (start tag, end tag, text), then the pending text is flushed and  *)
(* the document is output.                                                 *)
(***************************************************************************)
St(tag) == [kind |-> "start", tag |-> tag, text |-> <<>>]
En(tag) == [kind |-> "end", tag |-> tag, text |-> <<>>]
Tx(text) == [kind |-> "data", tag |-> "", text |-> text]

RECURSIVE Repeat(_, _)
\* n copies of the sequence q
Repeat(q, n) == IF n = 0 THEN <<>> ELSE q \o Repeat(q, n - 1)

TextFirst == <<"F", "i", "r", "s", "t">>
TextSecond == <<"S", "e", "c", "o", "n", "d">>
TextNested == <<"N", "e", "s", "t", "e", "d">>
TextShort == <<"a", "b">>
\* words of 19, 20, 14 and 15 characters
Word19 == Repeat(<<"a">>, 19)
Word20 == Repeat(<<"b">>, 20)
Word14 == Repeat(<<"c">>, 14)
Word15 == Repeat(<<"d">>, 15)
\* 60 characters in 3 words, 30 characters in 2 words
TextLong == Word19 \o <<" ">> \o Word19 \o <<" ">> \o Word20
TextHalf == Word14 \o <<" ">> \o Word15
\* one word wider than any line
TextWide == Repeat(<<"w", "w", "w", "w", "w", "w", "w", "w", "w", "w">>, 10)

\* <ol><li>First</li><li>Second<ol><li>Nested</li></ol></li></ol>
ScriptNested ==
    <<St("ol"), St("li"), Tx(TextFirst), En("li"),
      St("li"), Tx(TextSecond), St("ol"), St("li"), Tx(TextNested), En("li"), En("ol"),
      En("li"), En("ol")>>

EmptyItem == <<St("li"), En("li")>>

\* three items at level 1, the third holding a list of three items
ScriptThree ==
    <<St("ol")>> \o Repeat(EmptyItem, 2) \o <<St("li"), St("ol")>> \o Repeat(EmptyItem, 3)
    \o <<En("ol"), En("li"), En("ol")>>

\* lists nested four deep: 28 items at level 2, 12 at level 3, 2 at level 4
ScriptDeep ==
    <<St("ol"), St("li"), St("ol")>> \o Repeat(EmptyItem, 27)
    \o <<St("li"), St("ol")>> \o Repeat(EmptyItem, 11)
    \o <<St("li"), St("ol")>> \o Repeat(EmptyItem, 2)
    \o <<En("ol"), En("li"), En("ol"), En("li"), En("ol"), En("li"), En("ol")>>

\* <p>TextLong <b>TextLong</b> TextHalf</p>: text flushed in the middle of a line
ScriptInline ==
    <<St("p"), Tx(TextLong), St("b"), Tx(TextLong), En("b"), Tx(TextHalf), En("p")>>

\* a list item whose text wraps, with an inline element in it
ScriptItemWrap ==
    <<St("ul"), St("li"), Tx(TextLong \o <<" ">> \o TextLong), St("i"), Tx(TextLong),
      En("i"), En("li"), En("ul")>>

\* a paragraph of plain text that wraps, and a word wider than the line
\* a list item with a line break in it
ScriptItemBr ==
    <<St("ul"), St("li"), Tx(TextFirst), St("br"), Tx(TextSecond), En("li"), En("ul")>>

ScriptPlainWrap ==
    <<St("p"), Tx(TextLong \o <<" ">> \o TextLong \o <<" ">> \o TextLong), En("p"),
      St("p"), Tx(TextWide), Tx(TextShort), En("p")>>

\* an item of the innermost of 27 nested unordered lists
ScriptVeryDeep == Repeat(<<St("ul")>>, 27) \o <<St("li"), Tx(TextShort)>>

HpScripts == {ScriptNested, ScriptThree, ScriptDeep, ScriptInline, ScriptItemWrap,
              ScriptPlainWrap, ScriptVeryDeep, ScriptItemBr}

HpTags == {"h1", "p", "b", "i", "code", "pre", "ul", "ol", "li"}
HpAlphabet ==
    {St(t) : t \in HpTags \cup {"br"}} \cup {En(t) : t \in HpTags}
    \cup {Tx(TextShort), Tx(TextLong \o <<" ">> \o TextLong)}

InitHtmlPdf ==
    /\ mode \in {"script", "free"}
    /\ conv = "html_pdf"
    /\ input \in (IF mode = "script" THEN HpScripts ELSE {<<>>})
    /\ pos = 1
    /\ pc = "run"
    /\ md = NoMd
    /\ doc = <<>>
    /\ env \in [fonts : BOOLEAN]
    /\ pdf = PdfNew(IF env.fonts THEN "DejaVu" ELSE "Helvetica")
    /\ hp = HpNew(env.fonts)
    /\ hd = NoParser
    /\ tokens = <<>>
    /\ run = 1
    /\ prev = NoPrev
    /\ out = NoOut

\* the events that may come next: the next of the script, or any of the alphabet
NextEvents(alphabet) ==
    IF pos <= Len(input) THEN {input[pos]}
    ELSE IF mode = "free" /\ Len(input) < MaxEvents THEN alphabet
    ELSE IF mode = "short" /\ Len(input) < MaxReplay THEN alphabet
    ELSE {}

Consume(ev) ==
    /\ input' = IF pos <= Len(input) THEN input ELSE Append(input, ev)
    /\ pos' = pos + 1

HpS == [p |-> hp, f |-> pdf]

\* the handler has returned r, or an exception has left it and create_html_pdf,
\* which has no try block, with it
HpCommit(r, then) ==
    /\ hp' = r.p
    /\ pdf' = r.f
    /\ pc' = IF r.f.raised THEN "raised" ELSE then

HpStartTag ==
    /\ conv = "html_pdf" /\ pc = "run"
    /\ \E ev \in NextEvents(HpAlphabet) :
          /\ ev.kind = "start"
          /\ HpCommit(HpHandleStartTag(HpS, ev.tag), "run")
          /\ Consume(ev)
    /\ UNCHANGED <<mode, conv, md, doc, hd, tokens, run, prev, env, out>>

HpEndTag ==
    /\ conv = "html_pdf" /\ pc = "run"
    /\ \E ev \in NextEvents(HpAlphabet) :
          /\ ev.kind = "end"
          /\ HpCommit(HpHandleEndTag(HpS, ev.tag), "run")
          /\ Consume(ev)
    /\ UNCHANGED <<mode, conv, md, doc, hd, tokens, run, prev, env, out>>

HpData ==
    /\ conv = "html_pdf" /\ pc = "run"
    /\ \E ev \in NextEvents(HpAlphabet) :
          /\ ev.kind = "data"
          /\ HpCommit(HpHandleData(HpS, ev.text), "run")
          /\ Consume(ev)
    /\ UNCHANGED <<mode, conv, md, doc, hd, tokens, run, prev, env, out>>

\* end of input: parser.flush_text(), pdf.output(...)
HpFinish ==
    /\ conv = "html_pdf" /\ pc = "run"
    /\ pos > Len(input)
    /\ HpCommit(HpFlushText(HpS), "done")
    /\ UNCHANGED <<mode, conv, input, pos, md, doc, hd, tokens, run, prev, env, out>>

NextHtmlPdf == HpStartTag \/ HpEndTag \/ HpData \/ HpFinish

SpecHtmlPdf == InitHtmlPdf /\ [][NextHtmlPdf]_vars

(***************************************************************************)
(* Specification of the markdown renderers create_styled_docx and          *)
(* create_styled_pdf: the lines of text.split("\n") are processed one by   *)
(* one, then the document is saved.                                        *)
(***************************************************************************)
\* # Title
LineTitle ==
    <<"#", " ", "T", "i", "t", "l", "e">>

\* Some **bold** and *italic* text.
LineStyled ==
    <<"S", "o", "m", "e", " ", "*", "*", "b", "o", "l", "d", "*", "*", " ", "a", "n",
      "d", " ", "*", "i", "t", "a", "l", "i", "c", "*", " ", "t", "e", "x", "t", ".">>

\* - item one
LineItemOne ==
    <<"-", " ", "i", "t", "e", "m", " ", "o", "n", "e">>

\* - item two
LineItemTwo ==
    <<"-", " ", "i", "t", "e", "m", " ", "t", "w", "o">>

\* (backtick)(backtick)(backtick)
LineFence ==
    <<Backtick, Backtick, Backtick>>

\* (backtick)(backtick)(backtick)py
LineFenceLang ==
    <<Backtick, Backtick, Backtick, "p", "y">>

\*   # x
LineIndentedHash ==
    <<" ", " ", "#", " ", "x">>

\* * *a*
LineStarItem ==
    <<"*", " ", "*", "a", "*">>

\* # x
LineHeadingX ==
    <<"#", " ", "x">>

\* ## T
LineHeadingTwo ==
    <<"#", "#", " ", "T">>

\* ### T
LineHeadingThree ==
    <<"#", "#", "#", " ", "T">>

\* #### T
LineHeadingFour ==
    <<"#", "#", "#", "#", " ", "T">>

\*  ab cd 
LinePadded ==
    <<" ", "a", "b", " ", "c", "d", " ">>

\* ab  cd
LineWords ==
    <<"a", "b", " ", " ", "c", "d">>

\* a(U+4E2D)
LineCjk ==
    <<"a", "U4E2D">>

\* (U+00E9)
LineAccent ==
    <<"U00E9">>

\* a *b* (backtick)c(backtick)
LineInline ==
    <<"a", " ", "*", "b", "*", " ", Backtick, "c", Backtick>>

LineBlank == <<>>
LineLong == TextLong \o <<" ">> \o TextLong
\* a line that wraps inside a bold part and inside a code part
LineLongStyled ==
    TextLong \o <<" ", "*", "*">> \o TextLong \o <<"*", "*", " ", Backtick>> \o TextLong
    \o <<Backtick>>
LineLongItem == <<"-", " ">> \o TextLong \o <<" ">> \o TextLong
LineWideWord == TextShort \o <<" ">> \o TextWide \o <<" ">> \o TextShort

\* "# Title\n\nSome **bold** and *italic* text.\n\n- item one\n- item two"
DocEndToEnd == <<LineTitle, LineBlank, LineStyled, LineBlank, LineItemOne, LineItemTwo>>

\* a code block holding lines that look like a heading, a list item and a blank
DocCode ==
    <<LineFenceLang, LineIndentedHash, LineStarItem, LineBlank, LineCjk, LineFence,
      LineIndentedHash, LineStarItem>>

\* lines that wrap
DocWrap == <<LineLong, LineLongItem, LineWideWord, LineTitle, LineLongItem, LineLongStyled>>

MdDocs == {DocEndToEnd, DocCode, DocWrap}

MdLines ==
    {LineBlank, LineFence, LineIndentedHash, LineStarItem, LineHeadingX, LineHeadingTwo,
     LineHeadingThree, LineHeadingFour, LinePadded, LineWords, LineCjk, LineAccent,
     LineInline, LineItemOne, LineLong, LineLongItem}

InitMd ==
    /\ mode \in {"script", "free"}
    /\ conv \in {"md_docx", "md_pdf"}
    /\ input \in (IF mode = "script" THEN MdDocs ELSE {<<>>})
    /\ pos = 1
    /\ pc = "run"
    /\ md = NoMd
    /\ doc = <<>>
    /\ pdf = IF conv = "md_pdf" THEN PdfNew("Helvetica") ELSE NoPdf
    /\ hp = NoParser
    /\ hd = NoParser
    /\ tokens = <<>>
    /\ run = 1
    /\ prev = NoPrev
    /\ out = NoOut
    /\ env = NoEnv

\* the lines that may come next: the next of the document, or any of MdLines
NextLines ==
    IF pos <= Len(input) THEN {input[pos]}
    ELSE IF mode = "free" /\ Len(input) < MaxLines THEN MdLines
    ELSE IF mode = "short" /\ Len(input) < MaxReplay THEN MdLines
    ELSE {}

\* create_styled_docx: one iteration of the loop over the lines
MdDocxStep ==
    /\ conv = "md_docx" /\ pc = "run"
    /\ \E line \in NextLines :
          /\ LET r == MdDocxLine(md, doc, line)
             IN  md' = r.m /\ doc' = r.d
          /\ Consume(line)
    /\ UNCHANGED <<mode, conv, pc, pdf, hp, hd, tokens, run, prev, env, out>>

\* create_styled_pdf: one iteration of the loop over the lines
MdPdfStep ==
    /\ conv = "md_pdf" /\ pc = "run"
    /\ \E line \in NextLines :
          /\ LET r == MdPdfLine(md, pdf, line)
             IN  md' = r.m /\ pdf' = r.f
          /\ Consume(line)
    /\ UNCHANGED <<mode, conv, pc, doc, hp, hd, tokens, run, prev, env, out>>

\* end of the loop: doc.save(...) or pdf.output(...)
MdFinish ==
    /\ conv \in {"md_docx", "md_pdf"} /\ pc = "run"
    /\ pos > Len(input)
    /\ pc' = "done"
    /\ UNCHANGED <<mode, conv, input, pos, md, doc, pdf, hp, hd, tokens, run, prev, env, out>>

NextMd == MdDocxStep \/ MdPdfStep \/ MdFinish

SpecMd == InitMd /\ [][NextMd]_vars

(***************************************************************************)
(* Specification of create_styled_pdf with a page sink that may fail       *)
(* inside process_pdf_inline_styles_safe: for a line that goes through the *)
(* function, any one of the sink calls of its try block may raise; the     *)
(* calls of its except clause succeed.                                     *)
(***************************************************************************)
\* the line goes through process_pdf_inline_styles_safe
IsInlineLine(m, raw) ==
    \E line \in {Strip(raw)} :
        /\ ~StartsWith(line, Fence) /\ ~m.in_code_block /\ line # <<>>
        /\ ~StartsWith(line, <<"#", " ">>) /\ ~StartsWith(line, <<"#", "#", " ">>)
        /\ ~StartsWith(line, <<"#", "#", "#", " ">>)

\* "Some **bold** and *italic* text.\n- item one\n\na *b* `c`"
DocFailing == <<LineStyled, LineItemOne, LineBlank, LineInline>>

InitMdPdfFaulty ==
    /\ mode \in {"script", "short"}
    /\ conv = "md_pdf"
    /\ input \in (IF mode = "script" THEN {DocFailing} ELSE {<<>>})
    /\ pos = 1
    /\ pc = "run"
    /\ md = NoMd
    /\ doc = <<>>
    /\ pdf = PdfNew("Helvetica")
    /\ hp = NoParser
    /\ hd = NoParser
    /\ tokens = <<>>
    /\ run = 1
    /\ prev = NoPrev
    /\ out = NoOut
    /\ env = NoEnv

\* create_styled_pdf: one iteration of the loop, a sink call of the try block
\* of process_pdf_inline_styles_safe raises
MdPdfStepFailing ==
    /\ conv = "md_pdf" /\ pc = "run"
    /\ \E line \in NextLines :
          /\ IsInlineLine(md, line)
          /\ \E c \in {InlineCall(pdf, line)} :
                \E k \in 0..(TryCalls(c.f, c.line, c.indent) - 1) :
                    \E r \in {MdPdfLineFailing(md, pdf, line, k)} :
                        md' = r.m /\ pdf' = r.f
          /\ Consume(line)
    /\ UNCHANGED <<mode, conv, pc, doc, hp, hd, tokens, run, prev, env, out>>

NextMdPdfFaulty == MdPdfStep \/ MdPdfStepFailing \/ MdFinish

SpecMdPdfFaulty == InitMdPdfFaulty /\ [][NextMdPdfFaulty]_vars

(***************************************************************************)
(* Specification of a conversion that is called twice on the same input:   *)
(* any of the four conversions runs to its end, then it is called again    *)
(* and the input of the first call is replayed.                            *)
(***************************************************************************)
Conversions == {"md_docx", "md_pdf", "html_docx", "html_pdf"}

\* a fence that is never closed, and a list and a bold element never closed
DocOpenFence == <<LineTitle, LineFence, LineIndentedHash>>
ScriptOpen == <<St("ol"), St("li"), Tx(TextFirst), St("ul"), St("li"), St("b"), Tx(TextShort)>>

\* (mutation: the locals and the parser of an earlier call are used again)
StartConversionShared(c, fonts) ==
    [md |-> md,
     doc |-> <<>>,
     pdf |-> IF c = "md_pdf" THEN PdfNew("Helvetica")
             ELSE IF c = "html_pdf" THEN PdfNew(IF fonts THEN "DejaVu" ELSE "Helvetica")
             ELSE NoPdf,
     hp |-> hp,
     hd |-> hd]

\* what a call of conversion c constructs before it reads its input: the locals
\* and docx.Document() of create_styled_docx, FPDF() and the locals of
\* create_styled_pdf, a document or an FPDF and a new parser of create_html_*
StartConversion(c, fonts) ==
    [md |-> NoMd,
     doc |-> <<>>,
     pdf |-> IF c = "md_pdf" THEN PdfNew("Helvetica")
             ELSE IF c = "html_pdf" THEN PdfNew(IF fonts THEN "DejaVu" ELSE "Helvetica")
             ELSE NoPdf,
     hp |-> IF c = "html_pdf" THEN HpNew(fonts) ELSE NoParser,
     hd |-> IF c = "html_docx" THEN HdNew ELSE NoParser]

InitTwice ==
    /\ mode \in {"script", "short"}
    /\ conv \in Conversions
    /\ input \in (IF mode = "short" THEN {<<>>}
                  ELSE IF conv \in {"md_docx", "md_pdf"} THEN MdDocs \cup {DocOpenFence}
                  ELSE {ScriptNested, ScriptInline, ScriptItemWrap, ScriptOpen})
    /\ pos = 1
    /\ pc = "run"
    /\ env \in (IF conv = "html_pdf" THEN [fonts : BOOLEAN] ELSE {NoEnv})
    /\ md = NoMd
    /\ doc = <<>>
    /\ pdf = (IF conv = "md_pdf" THEN PdfNew("Helvetica")
              ELSE IF conv = "html_pdf" THEN PdfNew(IF env.fonts THEN "DejaVu" ELSE "Helvetica")
              ELSE NoPdf)
    /\ hp = (IF conv = "html_pdf" THEN HpNew(env.fonts) ELSE NoParser)
    /\ hd = (IF conv = "html_docx" THEN HdNew ELSE NoParser)
    /\ tokens = <<>>
    /\ run = 1
    /\ prev = NoPrev
    /\ out = NoOut

\* the shading calls the environment rejects
RejectedShadings == IF "shading" \in DOMAIN env THEN env.shading ELSE {}

HdS == [p |-> hd, d |-> doc, rejected |-> RejectedShadings]

HdStartTag ==
    /\ conv = "html_docx" /\ pc = "run"
    /\ \E ev \in NextEvents(HpAlphabet) :
          /\ ev.kind = "start"
          /\ LET r == HdHandleStartTag(HdS, ev.tag)
             IN  hd' = r.p /\ doc' = r.d
          /\ Consume(ev)
    /\ UNCHANGED <<mode, conv, pc, md, pdf, hp, tokens, run, prev, env, out>>

HdEndTag ==
    /\ conv = "html_docx" /\ pc = "run"
    /\ \E ev \in NextEvents(HpAlphabet) :
          /\ ev.kind = "end"
          /\ LET r == HdHandleEndTag(HdS, ev.tag)
             IN  hd' = r.p /\ doc' = r.d
          /\ Consume(ev)
    /\ UNCHANGED <<mode, conv, pc, md, pdf, hp, tokens, run, prev, env, out>>

HdData ==
    /\ conv = "html_docx" /\ pc = "run"
    /\ \E ev \in NextEvents(HpAlphabet) :
          /\ ev.kind = "data"
          /\ LET r == HdHandleData(HdS, ev.text)
             IN  hd' = r.p /\ doc' = r.d
          /\ Consume(ev)
    /\ UNCHANGED <<mode, conv, pc, md, pdf, hp, tokens, run, prev, env, out>>

\* end of input: parser.flush_text(), doc.save(...)
HdFinish ==
    /\ conv = "html_docx" /\ pc = "run"
    /\ pos > Len(input)
    /\ LET r == HdFlushText(HdS)
       IN  hd' = r.p /\ doc' = r.d
    /\ pc' = "done"
    /\ UNCHANGED <<mode, conv, input, pos, md, pdf, hp, tokens, run, prev, env, out>>

\* the conversion has returned and is called again with the same input
Again ==
    /\ pc = "done" /\ run = 1
    /\ run' = 2
    /\ prev' = [md |-> md, doc |-> doc, pdf |-> pdf, hp |-> hp, hd |-> hd]
    /\ LET new == StartConversion(conv, env.fonts)
       IN  md' = new.md /\ doc' = new.doc /\ pdf' = new.pdf /\ hp' = new.hp /\ hd' = new.hd
    /\ mode' = "again"
    /\ pos' = 1
    /\ pc' = "run"
    /\ UNCHANGED <<conv, input, tokens, env, out>>

NextTwice ==
    \/ MdDocxStep \/ MdPdfStep \/ MdFinish
    \/ HdStartTag \/ HdEndTag \/ HdData \/ HdFinish
    \/ HpStartTag \/ HpEndTag \/ HpData \/ HpFinish
    \/ Again

SpecTwice == InitTwice /\ [][NextTwice]_vars

(***************************************************************************)
(* Specification of create_styled_pdf with failing sink calls: at any      *)
(* point of the styled pass a sink call may raise an exception that leaves *)
(* the loop, and so may a sink call of create_fallback_pdf.  The whole     *)
(* text is given from the start, since the fallback reads all of it.       *)
(***************************************************************************)
FailingLines == {LineTitle, LineStyled, LineItemOne, LineFence, LineCjk, LineBlank}

InitStyledPdf ==
    /\ mode = "script"
    /\ conv = "md_pdf"
    /\ input \in SeqsUpTo(FailingLines, MaxLines) \cup {DocEndToEnd}
    /\ pos = 1
    /\ pc = "run"
    /\ md = NoMd
    /\ doc = <<>>
    /\ pdf = PdfNew("Helvetica")
    /\ hp = NoParser
    /\ hd = NoParser
    /\ tokens = <<>>
    /\ run = 1
    /\ prev = NoPrev
    /\ env = NoEnv
    /\ out = NoOut

\* a sink call of the styled pass raises and the exception reaches the except
\* clause of create_styled_pdf: while FPDF is set up or line pos is processed,
\* or in pdf.output when all lines are done.  The document built so far is dropped.
StyledRaise ==
    /\ conv = "md_pdf" /\ pc = "run"
    /\ LET r == StyledExcept(out)
       IN  pc' = r.pc /\ out' = r.out
    /\ UNCHANGED <<mode, conv, input, pos, md, doc, pdf, hp, hd, tokens, run, prev, env>>

\* pdf.output(pdf_fp); return pdf_fp.getvalue()
StyledReturn ==
    /\ conv = "md_pdf" /\ pc = "run"
    /\ pos > Len(input)
    /\ pc' = "done"
    /\ out' = [out EXCEPT !.result = "styled"]
    /\ UNCHANGED <<mode, conv, input, pos, md, doc, pdf, hp, hd, tokens, run, prev, env>>

\* create_fallback_pdf(text) with no failing sink call
FallbackReturn ==
    /\ conv = "md_pdf" /\ pc = "fallback"
    /\ pdf' = FallbackPdf(JoinLines(input))
    /\ pc' = "done"
    /\ out' = [out EXCEPT !.fallback_runs = @ + 1, !.result = "plain"]
    /\ UNCHANGED <<mode, conv, input, pos, md, doc, hp, hd, tokens, run, prev, env>>

\* create_fallback_pdf(text) with a sink call that raises
FallbackRaise ==
    /\ conv = "md_pdf" /\ pc = "fallback"
    /\ LET r == FallbackExcept([out EXCEPT !.fallback_runs = @ + 1])
       IN  pc' = r.pc /\ out' = r.out
    /\ UNCHANGED <<mode, conv, input, pos, md, doc, pdf, hp, hd, tokens, run, prev, env>>

NextStyledPdf == MdPdfStep \/ StyledRaise \/ StyledReturn \/ FallbackReturn \/ FallbackRaise

SpecStyledPdf == InitStyledPdf /\ [][NextStyledPdf]_vars

(***************************************************************************)
(* Specification of create_html_pdf with a failing sink: which of the      *)
(* first write attempts the sink fails is chosen at the start.             *)
(***************************************************************************)
TextCjk == <<"a", "U4E2D">>

\* an item outside any list, a heading and an item with a character outside latin-1
ScriptGlyphs == <<St("li"), Tx(TextShort), En("li"), St("h1"), Tx(TextCjk), En("h1"),
                  St("ul"), St("li"), Tx(TextCjk)>>

InitHtmlPdfFaulty ==
    /\ mode \in {"script", "short"}
    /\ conv = "html_pdf"
    /\ input \in (IF mode = "script"
                  THEN {ScriptNested, ScriptInline, ScriptItemWrap, ScriptOpen, ScriptGlyphs}
                  ELSE {<<>>})
    /\ pos = 1
    /\ pc = "run"
    /\ md = NoMd
    /\ doc = <<>>
    /\ env \in [fonts : BOOLEAN]
    /\ \E faults \in SeqsUpTo(BOOLEAN, MaxFaults) :
          pdf = [PdfNew(IF env.fonts THEN "DejaVu" ELSE "Helvetica") EXCEPT !.faults = faults]
    /\ hp = HpNew(env.fonts)
    /\ hd = NoParser
    /\ tokens = <<>>
    /\ run = 1
    /\ prev = NoPrev
    /\ out = NoOut

SpecHtmlPdfFaulty == InitHtmlPdfFaulty /\ [][NextHtmlPdf]_vars

(***************************************************************************)
(* Specification of the two HTML conversions, create_html_docx and         *)
(* create_html_pdf, over the same scripts and freely chosen events.        *)
(***************************************************************************)
\* the second item of a list follows an item that held a nested list
ScriptAfterNested ==
    <<St("ol"), St("li"), Tx(TextFirst), St("ol"), St("li"), Tx(TextNested), En("li"),
      En("ol"), En("li"), St("li"), Tx(TextSecond), En("li"), En("ol"), St("ol"), St("li"),
      Tx(TextShort), En("li"), En("ol")>>

\* inline elements closed in another order than they were opened
ScriptMisnested ==
    <<St("p"), St("b"), St("i"), Tx(TextFirst), En("b"), Tx(TextSecond), En("i"),
      Tx(TextShort), En("p")>>

\* a bold element that is closed inside the pre element it contains
ScriptPreBold ==
    <<St("b"), St("pre"), Tx(TextFirst), En("b"), En("pre"), St("p"), Tx(TextSecond), En("p")>>

\* a paragraph opened twice before its text
ScriptTwoP == <<St("p"), St("p"), Tx(TextFirst), En("p")>>

\* a bullet list inside an item of a numbered list, and an item after it
ScriptMixedNested ==
    <<St("ol"), St("li"), Tx(TextFirst), St("ul"), St("li"), Tx(TextNested), En("li"),
      En("ul"), En("li"), St("li"), Tx(TextSecond), En("li"), En("ol"), St("li"),
      Tx(TextShort)>>

\* a list in a list in a list, closed, and end tags with nothing open
ScriptLists ==
    <<St("ul"), St("li"), St("ol"), St("li"), St("ul"), St("li"), Tx(TextNested), En("li"),
      En("ul"), En("li"), En("ol"), En("li"), En("ul"), En("ul"), En("b"), En("pre"),
      St("li"), Tx(TextShort)>>

HtmlScripts ==
    HpScripts \cup {ScriptOpen, ScriptAfterNested, ScriptMisnested, ScriptPreBold,
                    ScriptTwoP, ScriptLists, ScriptMixedNested}

InitHtml ==
    /\ mode \in {"script", "free"}
    /\ conv \in {"html_docx", "html_pdf"}
    /\ input \in (IF mode = "script" THEN HtmlScripts ELSE {<<>>})
    /\ pos = 1
    /\ pc = "run"
    /\ md = NoMd
    /\ doc = <<>>
    /\ env \in (IF conv = "html_pdf" THEN [fonts : BOOLEAN] ELSE {NoEnv})
    /\ pdf = (IF conv = "html_pdf" THEN PdfNew(IF env.fonts THEN "DejaVu" ELSE "Helvetica")
              ELSE NoPdf)
    /\ hp = (IF conv = "html_pdf" THEN HpNew(env.fonts) ELSE NoParser)
    /\ hd = (IF conv = "html_docx" THEN HdNew ELSE NoParser)
    /\ tokens = <<>>
    /\ run = 1
    /\ prev = NoPrev
    /\ out = NoOut

NextHtml ==
    \/ HdStartTag \/ HdEndTag \/ HdData \/ HdFinish
    \/ HpStartTag \/ HpEndTag \/ HpData \/ HpFinish

SpecHtml == InitHtml /\ [][NextHtml]_vars

(***************************************************************************)
(* Specification of create_html_docx with a document library that rejects  *)
(* some shading calls: which ones is chosen at the start.                  *)
(***************************************************************************)

\* code and pre elements, alone and inside bold and italic
ScriptCode ==
    <<St("p"), Tx(TextFirst), St("code"), Tx(TextSecond), En("code"), St("b"), St("code"),
      Tx(TextShort), En("code"), En("b"), En("p"), St("i"), St("pre"), Tx(TextNested),
      En("pre"), En("i"), Tx(TextShort)>>

InitHtmlDocxFaulty ==
    /\ mode \in {"script", "short"}
    /\ conv = "html_docx"
    /\ input \in (IF mode = "script" THEN {ScriptCode, ScriptPreBold, ScriptInline}
                  ELSE {<<>>})
    /\ pos = 1
    /\ pc = "run"
    /\ md = NoMd
    /\ doc = <<>>
    /\ env \in [fonts : {FALSE}, shading : SUBSET (1..MaxFaults)]
    /\ pdf = NoPdf
    /\ hp = NoParser
    /\ hd = HdNew
    /\ tokens = <<>>
    /\ run = 1
    /\ prev = NoPrev
    /\ out = NoOut

NextHtmlDocx == HdStartTag \/ HdEndTag \/ HdData \/ HdFinish

SpecHtmlDocxFaulty == InitHtmlDocxFaulty /\ [][NextHtmlDocx]_vars

(***************************************************************************)
(* Claims about the tokenizer.                                             *)
(***************************************************************************)
MarkerOf(style) ==
    CASE style = "bold" -> <<"*", "*">>
      [] style = "italic" -> <<"*">>
      [] style = "code" -> <<Backtick>>
      [] OTHER -> <<>>

HasNoMarker(s) == \A i \in 1..Len(s) : s[i] \notin {"*", Backtick}

\* line = P ** M ** Q with no marker in P and the second ** the first one after the opening
BoldFirstShape(line, p, m) ==
    /\ p + m + 4 <= Len(line)
    /\ HasNoMarker(SubSeq(line, 1, p))
    /\ SubSeq(line, p + 1, p + 2) = <<"*", "*">>
    /\ SubSeq(line, p + m + 3, p + m + 4) = <<"*", "*">>
    /\ \A j \in (p + 3)..(p + m + 2) : SubSeq(line, j, j + 1) # <<"*", "*">>

\* C3: the line **a*b*c** becomes exactly one bold token with content a*b*c;
\* in general a line P ** M ** Q (no marker in P, the closing ** the first one
\* after the opening) becomes literal P, one bold token with content M (its
\* single asterisks kept as text, none of them an italic token), then the
\* tokens of Q.
C3_BoldFirst ==
    (conv = "tokenize" /\ pc = "done") =>
        LET line == input[1]
        IN  /\ line = LineBoldNested =>
                tokens = <<[style |-> "bold", content |-> <<"a", "*", "b", "*", "c">>,
                            part |-> LineBoldNested]>>
            /\ \A p \in 0..Len(line), m \in 0..Len(line) :
                 BoldFirstShape(line, p, m) =>
                    LET P == SubSeq(line, 1, p)
                        M == SubSeq(line, p + 3, p + m + 2)
                        Q == SubSeq(line, p + m + 5, Len(line))
                        lead == IF p = 0 THEN <<>>
                                ELSE <<[style |-> "literal", content |-> P, part |-> P]>>
                    IN  tokens = lead
                                 \o <<[style |-> "bold", content |-> M,
                                       part |-> <<"*", "*">> \o M \o <<"*", "*">>]>>
                                 \o Tokenize(Q)

C3_Witness ==
    /\ conv = "tokenize" /\ pc = "done"
    /\ input[1] = LineBoldNested
    /\ Len(tokens) = 1 /\ tokens[1].style = "bold"

\* C4: a styled token (bold, italic, code) only ever comes from an opening and
\* a separate closing marker, and its content together with the two markers is
\* the text it was made from: a marker without a partner stays in a literal
\* token and no character of the line is dropped.
C4_UnbalancedStaysLiteral ==
    (conv = "tokenize" /\ pc = "done") =>
        /\ Concat([i \in 1..Len(tokens) |-> tokens[i].part]) = input[1]
        /\ \A i \in 1..Len(tokens) :
              LET t == tokens[i]
              IN  t.part = MarkerOf(t.style) \o t.content \o MarkerOf(t.style)

(***************************************************************************)
(* Claims about HTMLToPDFParser.                                           *)
(***************************************************************************)
IsWrite(c) == c.op = "write"

\* the write calls of the page sink, in order
Writes == SelectSeq(pdf.calls, IsWrite)

\* the lowercase roman numeral of n, 1 <= n <= 39
RomanLower(n) ==
    Repeat(<<"x">>, n \div 10) \o (IF n % 10 = 0 THEN <<>> ELSE roman_numerals[n % 10])

\* the marker of the N-th item of an ordered list at nesting level L, as stated
MarkerStated(L, N) ==
    CASE L = 1 -> Decimal(N) \o <<".", " ">>
      [] L = 2 -> <<Letters[N]>> \o <<")", " ">>
      [] L = 3 -> RomanLower(N) \o <<".", " ">>
      [] OTHER -> Decimal(N) \o <<".", " ">>

\* the same with the tables' overflow: itemN past 26 letters and past 10 numerals
MarkerAmended(L, N) ==
    CASE L = 1 -> Decimal(N) \o <<".", " ">>
      [] L = 2 -> (IF N <= 26 THEN <<Letters[N]>> ELSE ItemN(N)) \o <<")", " ">>
      [] L = 3 -> (IF N <= 10 THEN RomanLower(N) ELSE ItemN(N)) \o <<".", " ">>
      [] OTHER -> Decimal(N) \o <<".", " ">>

\* the parser has just handled an <li> start tag whose innermost open list is an <ol>
AfterOrderedLi ==
    /\ conv = "html_pdf" /\ pc = "run"
    /\ pos > 1 /\ input[pos - 1] = St("li")
    /\ hp.list_stack # <<>> /\ Last(hp.list_stack) = "ol"

MarkersOfThree ==
    << <<"1", ".", " ">>, <<"2", ".", " ">>, <<"3", ".", " ">>,
       <<"a", ")", " ">>, <<"b", ")", " ">>, <<"c", ")", " ">> >>

\* C1 as stated: at an <li> of an <ol> the marker written is "N." at level 1,
\* the N-th letter and ")" at level 2, the N-th roman numeral and "." at level
\* 3, "N." from level 4 on, for every counter N.
C1_MarkerByLevel ==
    AfterOrderedLi =>
        /\ Last(pdf.calls).op = "write"
        /\ Len(hp.list_stack) = 2 => Last(hp.list_counters) <= 26
        /\ Last(pdf.calls).text = MarkerStated(Len(hp.list_stack), Last(hp.list_counters))

\* C1 as amended: the same, with "itemN)" at level 2 once N > 26 and "itemN."
\* at level 3 once N > 10; three items at level 1 get 1., 2., 3. and three
\* items of an <ol> nested in a level-1 item get a), b), c).
C1_MarkerByLevelAmended ==
    /\ AfterOrderedLi =>
          /\ Last(pdf.calls).op = "write"
          /\ Last(pdf.calls).text = MarkerAmended(Len(hp.list_stack), Last(hp.list_counters))
    /\ (conv = "html_pdf" /\ pc = "done" /\ input = ScriptThree) =>
          [i \in 1..Len(Writes) |-> Writes[i].text] = MarkersOfThree

C1_Witness ==
    /\ AfterOrderedLi
    /\ Len(hp.list_stack) = 3 /\ Last(hp.list_counters) = 11
    /\ Last(pdf.calls).text = <<"i", "t", "e", "m", "1", "1", ".", " ">>

\* index of the last write before call i, or 0
PrevWriteIdx(i) ==
    LET S == {j \in 1..(i - 1) : pdf.calls[j].op = "write"}
    IN  IF S = {} THEN 0 ELSE CHOOSE j \in S : \A k \in S : k <= j

\* call i is the first write of the document or follows a line break made
\* after the write before it
OnNewLine(i) ==
    \/ PrevWriteIdx(i) = 0
    \/ \E k \in (PrevWriteIdx(i) + 1)..(i - 1) : pdf.calls[k].op = "ln"

NonZero(n) == n # 0

\* indices of the write calls, in order
WriteIdx ==
    SelectSeq([i \in 1..Len(pdf.calls) |-> IF pdf.calls[i].op = "write" THEN i ELSE 0], NonZero)

\* C2: for <ol><li>First</li><li>Second<ol><li>Nested</li></ol></li></ol> the
\* text writes are, in order, "1. ", First, "2. ", Second, "a) ", Nested; the
\* outer markers are written at left margin + base_indent, the nested one at
\* left margin + 2 * base_indent, and each marker starts a new line.
C2_NestedOrder ==
    (conv = "html_pdf" /\ pc = "done" /\ input = ScriptNested) =>
        /\ Len(Writes) = 6
        /\ Writes[1].text = <<"1", ".", " ">> /\ RStrip(Writes[2].text) = TextFirst
        /\ Writes[3].text = <<"2", ".", " ">> /\ RStrip(Writes[4].text) = TextSecond
        /\ Writes[5].text = <<"a", ")", " ">> /\ RStrip(Writes[6].text) = TextNested
        /\ Writes[1].x = LMargin + 1 * base_indent
        /\ Writes[3].x = LMargin + 1 * base_indent
        /\ Writes[5].x = LMargin + 2 * base_indent
        /\ OnNewLine(WriteIdx[1]) /\ OnNewLine(WriteIdx[3]) /\ OnNewLine(WriteIdx[5])

C2_Witness ==
    /\ conv = "html_pdf" /\ pc = "done" /\ input = ScriptNested
    /\ Len(Writes) = 6
    /\ Writes[5].x = LMargin + 2 * base_indent

\* index of the last line break before call i, or 0
PrevLnIdx(i) ==
    LET S == {j \in 1..(i - 1) : pdf.calls[j].op = "ln"}
    IN  IF S = {} THEN 0 ELSE CHOOSE j \in S : \A k \in S : k <= j

\* the text written on the line that ends before call i
LineText(i) ==
    LET line == SelectSeq(SubSeq(pdf.calls, PrevLnIdx(i) + 1, i - 1), IsWrite)
    IN  Concat([k \in 1..Len(line) |-> line[k].text])

\* the line that ends before call i holds one word only
SingleWordLine(i) == IndexOf(Strip(LineText(i)), " ", 1) = 0

\* where the visible text of the line that ends before call i ends: the cursor
\* there, less the blanks that end the last write of the line; cursor is the
\* cursor position before call i
LineEndX(i, cursor) ==
    LET j == PrevWriteIdx(i)
    IN  IF j > PrevLnIdx(i)
        THEN LET c == pdf.calls[j]
             IN  cursor - (Len(c.text) - Len(RStrip(c.text))) * CharWidth(c.font)
        ELSE cursor

\* C9: no line ends with the cursor beyond page width - right margin (blanks
\* at the end of the line not counted), except a line that consists of a
\* single (too wide) word; also when text was flushed with the cursor in the
\* middle of the line.
C9_LinesFit ==
    conv = "html_pdf" =>
        /\ \A i \in 1..Len(pdf.calls) :
              pdf.calls[i].op = "ln" =>
                  \/ LineEndX(i, pdf.calls[i].x) <= PageW - RMargin
                  \/ SingleWordLine(i)
        /\ pc = "done" =>
              \/ LineEndX(Len(pdf.calls) + 1, pdf.x) <= PageW - RMargin
              \/ SingleWordLine(Len(pdf.calls) + 1)

(***************************************************************************)
(* Claims about the markdown renderers.                                    *)
(***************************************************************************)
\* the lines processed so far
Processed == SubSeq(input, 1, pos - 1)

IsNonBlank(l) == Strip(l) # <<>>

IsFenceLine(l) == StartsWith(Strip(l), Fence)

IsTextCall(c) == c.op \in {"write", "multi_cell"}

\* the calls a step adds to the page sink, and those of them that emit text
NewCalls == SubSeq(pdf'.calls, Len(pdf.calls) + 1, Len(pdf'.calls))
NewText == SelectSeq(NewCalls, IsTextCall)

\* the text of a code line as the page sink receives it
CodeText(line, verbatim) == IF verbatim THEN line ELSE Latin1Replace(line)

\* one step of create_styled_docx on line l, as C5 has it
CodeBlockStepDocx(l) ==
    IF IsFenceLine(l)
    THEN /\ md'.in_code_block = ~md.in_code_block
         /\ \/ doc' = doc
            \/ /\ Len(doc') = Len(doc) + 1
               /\ SubSeq(doc', 1, Len(doc)) = doc
               /\ doc'[Len(doc')].runs = <<>>
    ELSE IF md.in_code_block
    THEN /\ md'.in_code_block
         /\ Len(doc') = Len(doc) + 1
         /\ SubSeq(doc', 1, Len(doc)) = doc
         /\ LET p == doc'[Len(doc')]
            IN  /\ p.kind = "paragraph" /\ p.style = "No Spacing"
                /\ Len(p.runs) = 1
                /\ p.runs[1].text = l
                /\ p.runs[1].font = "Courier New"
                /\ ~p.runs[1].bold /\ ~p.runs[1].italic
    ELSE /\ ~md'.in_code_block
         /\ StartsWith(Strip(l), <<"#", " ">>) =>
               /\ Len(doc') = Len(doc) + 1
               /\ doc'[Len(doc')].kind = "heading" /\ doc'[Len(doc')].level = 1
         /\ StartsWith(Strip(l), <<"*", " ">>) =>
               /\ Len(doc') = Len(doc) + 1
               /\ doc'[Len(doc')].style = "List Bullet"
               /\ l = LineStarItem =>
                     doc'[Len(doc')].runs = <<[PlainRun(<<"a">>) EXCEPT !.italic = TRUE]>>

\* one step of create_styled_pdf on line l, as C5 has it
CodeBlockStepPdf(l, verbatim) ==
    IF IsFenceLine(l)
    THEN md'.in_code_block = ~md.in_code_block /\ NewText = <<>>
    ELSE IF md.in_code_block
    THEN /\ md'.in_code_block
         /\ Len(NewText) = 1
         /\ NewText[1].op = "multi_cell"
         /\ NewText[1].text = CodeText(l, verbatim)
         /\ NewText[1].font = <<"Courier", <<>>, 10>>
    ELSE /\ ~md'.in_code_block
         /\ StartsWith(Strip(l), <<"#", " ">>) =>
               /\ Len(NewText) = 1
               /\ NewText[1].op = "multi_cell"
               /\ NewText[1].font = <<"Helvetica", <<"B">>, 16>>
         /\ StartsWith(Strip(l), <<"*", " ">>) =>
               /\ NewText[1].text = <<"-", " ">>
               /\ l = LineStarItem =>
                     /\ NewText[2].text = <<"a", " ">>
                     /\ NewText[2].font = <<"Helvetica", <<"I">>, 12>>

CodeBlockStep(verbatim) ==
    (pos' = pos + 1) =>
        /\ conv = "md_docx" => CodeBlockStepDocx(input'[pos])
        /\ conv = "md_pdf" => CodeBlockStepPdf(input'[pos], verbatim)

\* C5 as stated: in both markdown renderers a fence line flips the code-mode
\* flag and emits no text; a line inside a code block is emitted verbatim as
\* one block of code text, leading whitespace kept, never as a heading, a list
\* item or styled runs; outside a code block lines are classified as usual.
C5_CodeBlockVerbatim == [][CodeBlockStep(TRUE)]_vars

\* C5 amended: the same, but the page renderer emits the line of a code block
\* after its latin-1 re-encoding (a character outside latin-1 becomes "?").
C5_CodeBlockReencoded == [][CodeBlockStep(FALSE)]_vars

\* a code block was rendered by the page renderer: the indented "# x" and a
\* re-encoded line inside it as code text, the "# x" after it as a heading
C5_Witness ==
    /\ conv = "md_pdf" /\ input = DocCode /\ pc = "done"
    /\ \E i, j, k \in 1..Len(pdf.calls) :
          /\ i < j /\ j < k
          /\ pdf.calls[i].op = "multi_cell" /\ pdf.calls[i].text = LineIndentedHash
          /\ pdf.calls[i].font[1] = "Courier"
          /\ pdf.calls[j].op = "multi_cell" /\ pdf.calls[j].text = <<"a", "?">>
          /\ pdf.calls[k].op = "multi_cell" /\ pdf.calls[k].text = <<"x">>
          /\ pdf.calls[k].font = <<"Helvetica", <<"B">>, 16>>

\* C6: for "# Title", blank, "Some **bold** and *italic* text.", blank,
\* "- item one", "- item two" create_styled_docx builds, in this order and
\* nothing else, a level-1 heading "Title", a paragraph of the runs literal
\* "Some ", bold "bold", literal " and ", italic "italic", literal " text.", and
\* two bullet list items of one literal run each; a blank line adds nothing.
C6_EndToEndDocx ==
    (conv = "md_docx" /\ mode = "script" /\ input = DocEndToEnd) =>
        /\ pc = "done" =>
              doc = <<Paragraph("heading", 1, "Heading", <<PlainRun(SliceFrom(LineTitle, 2))>>),
                      Paragraph("paragraph", 0, "Normal",
                                <<PlainRun(<<"S", "o", "m", "e", " ">>),
                                  [PlainRun(<<"b", "o", "l", "d">>) EXCEPT !.bold = TRUE],
                                  PlainRun(<<" ", "a", "n", "d", " ">>),
                                  [PlainRun(<<"i", "t", "a", "l", "i", "c">>)
                                      EXCEPT !.italic = TRUE],
                                  PlainRun(<<" ", "t", "e", "x", "t", ".">>)>>),
                      Paragraph("paragraph", 0, "List Bullet",
                                <<PlainRun(SliceFrom(LineItemOne, 2))>>),
                      Paragraph("paragraph", 0, "List Bullet",
                                <<PlainRun(SliceFrom(LineItemTwo, 2))>>)>>
        /\ Len(doc) = Len(SelectSeq(Processed, IsNonBlank))

C6_Witness ==
    /\ conv = "md_docx" /\ mode = "script" /\ input = DocEndToEnd /\ pc = "done"
    /\ Len(doc) = 4 /\ Len(doc[2].runs) = 5

MarkerChars == {"#", "*", "-", Backtick}

HasNoMarkers(l) == \A i \in 1..Len(l) : l[i] \notin MarkerChars

\* the text of all the calls in calls, concatenated
TextOf(calls) == Concat([k \in 1..Len(calls) |-> calls[k].text])

\* the text of a marker-free line as the renderers are to emit it
PlainText(l, exact) == IF exact THEN l ELSE Strip(l)

\* one step of a markdown renderer on the marker-free line l: the flow
\* renderer adds one paragraph of one literal run, the page renderer starts at
\* the left margin, writes the text in the regular font and ends the line
PlainLineStep(l, exact) ==
    /\ conv = "md_docx" =>
          doc' = IF IsNonBlank(l)
                 THEN Append(doc, Paragraph("paragraph", 0, "Normal",
                                            <<PlainRun(PlainText(l, exact))>>))
                 ELSE doc
    /\ conv = "md_pdf" =>
          IF IsNonBlank(l)
          THEN /\ NewCalls[1].op = "set_x" /\ NewCalls[1].arg = LMargin
               /\ NewCalls[Len(NewCalls)].op = "ln"
               /\ \A k \in 1..Len(NewText) :
                     NewText[k].op = "write" /\ NewText[k].font = <<"Helvetica", <<>>, 12>>
               /\ TextOf(NewText) = IF exact THEN l
                                    ELSE Latin1Replace(Strip(l)) \o <<" ">>
          ELSE NewText = <<>>

PlainStep(exact) ==
    (pos' = pos + 1 /\ \A k \in 1..Len(input') : HasNoMarkers(input'[k])) =>
        PlainLineStep(input'[pos], exact)

\* C7 as stated: in an input without markers every non-blank line is emitted
\* as one paragraph of one literal run whose text is exactly the line, and
\* nothing else is emitted.
C7_PlainLineExact == [][PlainStep(TRUE)]_vars

\* C7 amended: the text emitted is the line without its leading and trailing
\* whitespace; the page renderer writes it word by word in the regular font,
\* each word followed by a blank, characters outside latin-1 replaced by "?".
C7_PlainLineTrimmed == [][PlainStep(FALSE)]_vars

\* a padded line, a blank line and a line with a character outside latin-1
\* were rendered by the page renderer
C7_Witness ==
    /\ conv = "md_pdf" /\ pc = "done"
    /\ input = <<LinePadded, LineBlank, LineCjk>>
    /\ TextOf(Writes) = <<"a", "b", " ", "c", "d", " ", "a", "?", " ">>

\* the calls of the last call of process_pdf_inline_styles_safe
SafeFrom == md.from + 1
SafeTo == md.to
SafeCalls == SubSeq(pdf.calls, SafeFrom, SafeTo)

\* the cursor x after the write call c
XAfter(c) == c.x + GetStringWidth(c, c.text)

\* the text c writes is one whole word and the blank after it
IsWholeWord(c) ==
    /\ c.text # <<>>
    /\ c.text[Len(c.text)] = " "
    /\ IndexOf(c.text, " ", 1) = Len(c.text)

\* the text process_pdf_inline_styles_safe is to write for the line: the
\* content of every token, each followed by a blank
SafeExpected(line) ==
    LET toks == Tokenize(line)
    IN  Concat([k \in 1..Len(toks) |-> Latin1Replace(toks[k].content) \o <<" ">>])

\* C8: in process_pdf_inline_styles_safe the cursor x after a word write is at
\* most page width - right margin unless the word with its blank is wider than
\* the space from the indent to the right margin; every write is one whole
\* word; a wrap is a line break, then x set to the indent of the caller, then
\* the write of the word.
C8_WordWrap ==
    (conv = "md_pdf" /\ md.from > 0) =>
        /\ \A i \in SafeFrom..SafeTo :
              LET c == pdf.calls[i]
              IN  /\ c.op = "write" =>
                        /\ \/ XAfter(c) <= PageW - RMargin
                           \/ GetStringWidth(c, c.text) > PageW - RMargin - md.indent
                        /\ IsWholeWord(c)
                  /\ c.op = "ln" =>
                        /\ i + 2 <= SafeTo
                        /\ pdf.calls[i + 1].op = "set_x"
                        /\ pdf.calls[i + 1].arg = md.indent
                        /\ pdf.calls[i + 2].op = "write"
                        /\ pdf.calls[i + 2].x = md.indent
                        /\ pdf.calls[i + 2].y > c.y
                  /\ c.op = "set_x" => i > SafeFrom /\ pdf.calls[i - 1].op = "ln"
        /\ TextOf(SelectSeq(SafeCalls, IsWrite)) = SafeExpected(md.line)

\* a list item was wrapped to the indent 15, and a word wider than the line
\* was written on a line of its own, unsplit
C8_Witness ==
    /\ conv = "md_pdf" /\ input = DocWrap /\ pos = 4
    /\ md.indent = LMargin /\ md.line = LineWideWord
    /\ \E i \in SafeFrom..SafeTo :
          /\ pdf.calls[i].op = "write"
          /\ pdf.calls[i].text = TextWide \o <<" ">>
          /\ pdf.calls[i].x = LMargin
          /\ XAfter(pdf.calls[i]) > PageW - RMargin
          /\ pdf.calls[i - 1].op = "set_x" /\ pdf.calls[i - 2].op = "ln"

(***************************************************************************)
(* Claims about repeated conversions.                                      *)
(***************************************************************************)
\* nothing has been done yet: no sink call, the cursor at the margins, the
\* code-block flags down, every stack empty, every counter and text empty
FreshState ==
    /\ ~md.in_code_block /\ ~md.code_block_started
    /\ doc = <<>>
    /\ pdf.calls = <<>>
    /\ conv \in {"md_pdf", "html_pdf"} => pdf.x = LMargin /\ pdf.y = TMargin
    /\ conv = "html_pdf" =>
          /\ hp.list_stack = <<>> /\ hp.list_counters = <<>> /\ hp.list_indent_level = 0
          /\ Len(hp.font_stack) = 1
          /\ ~hp.in_code /\ ~hp.in_pre /\ ~hp.in_list_item
          /\ hp.current_text = <<>>
    /\ conv = "html_docx" =>
          /\ hd.style_stack = <<>> /\ hd.list_stack = <<>> /\ hd.list_counters = <<>>
          /\ ~hd.in_list
          /\ hd.current_paragraph = 0 /\ hd.current_run = 0
          /\ hd.current_text = <<>>

C11_NeverRaises ==
    /\ out.result # "raised"
    /\ pc = "done" => out.result \in {"styled", "plain", "sentinel"}
    /\ pc # "done" => out.result = "none"
    /\ out.result = "styled" <=> (pc = "done" /\ ~out.styled_failed)
    /\ out.result = "plain" =>
          /\ out.styled_failed /\ ~out.fallback_failed /\ out.fallback_runs = 1
          /\ pdf = FallbackPdf(JoinLines(input))
    /\ out.result = "sentinel" <=> (out.styled_failed /\ out.fallback_failed)
    /\ out.fallback_failed => out.fallback_runs = 1
    /\ out.fallback_runs > 0 => out.styled_failed
    /\ out.fallback_runs <= 1
    /\ pc = "fallback" <=> (out.styled_failed /\ out.fallback_runs = 0)

\* the styled pass has failed at the third line of the end-to-end document and
\* the fallback has returned the text in one block, markers removed
C11_Witness ==
    /\ input = DocEndToEnd /\ pos = 3 /\ pc = "done"
    /\ out.result = "plain"
    /\ Len(pdf.calls) = 1 /\ pdf.calls[1].op = "multi_cell"
    /\ Len(pdf.calls[1].text) = Len(JoinLines(input)) - 8
    /\ \A i \in 1..Len(pdf.calls[1].text) : pdf.calls[1].text[i] \notin {"*", "#"}

(***************************************************************************)
(* Claims about the failure handling of create_html_pdf.                   *)
(***************************************************************************)
\* C12: whatever write attempts of the sink fail, no exception leaves the
\* parser of create_html_pdf: the conversion is never ended by an exception.
C12_NeverEscapes == pc # "raised"

(***************************************************************************)
(* Claims about the list markers and the list state of the HTML parsers.   *)
(***************************************************************************)
\* the parser has just handled an <li> start tag whose innermost open list is a <ul>
AfterUnorderedLi ==
    /\ conv = "html_pdf" /\ pc = "run"
    /\ pos > 1 /\ input[pos - 1] = St("li")
    /\ hp.list_stack # <<>> /\ Last(hp.list_stack) = "ul"

\* the glyph of an unordered item at nesting level L, as stated
GlyphStated(L, unicode_support) ==
    CASE L = 1 -> IF unicode_support THEN <<"U2022", " ">> ELSE <<"*", " ">>
      [] L = 2 -> IF unicode_support THEN <<"U25E6", " ">> ELSE <<"-", " ">>
      [] OTHER -> IF unicode_support THEN <<"U25AA", " ">> ELSE <<"+", " ">>

\* C13 as stated: at an <li> of a <ul> the marker written is the glyph of the
\* nesting level (level 1, level 2, level 3 and deeper), whatever else the
\* parser has seen, at every nesting depth.
C13_GlyphByLevel ==
    AfterUnorderedLi =>
        /\ Last(pdf.calls).op = "write"
        /\ Last(pdf.calls).text = GlyphStated(Len(hp.list_stack), hp.unicode_support)

\* C13 as amended: the glyph of the nesting level is attempted, and "- " is
\* written in its place when that write raises, which is the case for the
\* unicode glyphs while a core font (Helvetica, Courier) is the active font.
C13_GlyphByLevelOrDash ==
    AfterUnorderedLi =>
        LET c == Last(pdf.calls)
            glyph == GlyphStated(Len(hp.list_stack), hp.unicode_support)
        IN  /\ c.op = "write"
            /\ c.text = IF c.font[1] # "DejaVu" /\ glyph[1] \in NonLatin1
                        THEN <<"-", " ">> ELSE glyph

\* an item of the 27th nested list has got the level-3 glyph
C13_Witness ==
    /\ AfterUnorderedLi
    /\ Len(hp.list_stack) = 27 /\ hp.unicode_support
    /\ Last(pdf.calls).text = <<"U25AA", " ">>

\* the characters of a marker before its closing ") " or ". "
MarkerBody(text) == SubSeq(text, 1, Len(text) - 2)

IsLetter(c) == \E k \in 1..26 : Letters[k] = c
IsDigit(c) == \E k \in 1..10 : Digits[k] = c

\* C14: at level 2 the N-th item gets the N-th letter for N <= 26 and "itemN"
\* for N > 26; at level 3 it gets the N-th roman numeral for N <= 10 and
\* "itemN" for N > 10; the marker holds letters only, or "item" and digits.
C14_TableOverflow ==
    (AfterOrderedLi /\ Len(hp.list_stack) \in {2, 3}) =>
        LET N == Last(hp.list_counters)
            text == Last(pdf.calls).text
            body == MarkerBody(text)
            table_size == IF Len(hp.list_stack) = 2 THEN 26 ELSE 10
        IN  /\ N >= 1
            /\ Last(pdf.calls).op = "write"
            /\ Len(text) > 2
            /\ SubSeq(text, Len(text) - 1, Len(text))
                   = (IF Len(hp.list_stack) = 2 THEN <<")", " ">> ELSE <<".", " ">>)
            /\ N <= table_size =>
                  /\ \A i \in 1..Len(body) : IsLetter(body[i])
                  /\ body = (IF Len(hp.list_stack) = 2 THEN <<Letters[N]>> ELSE RomanLower(N))
            /\ N > table_size =>
                  /\ Len(body) > 4
                  /\ SubSeq(body, 1, 4) = <<"i", "t", "e", "m">>
                  /\ SubSeq(body, 5, Len(body)) = Decimal(N)
                  /\ \A i \in 5..Len(body) : IsDigit(body[i])

\* the 27th item of a level-2 list has been marked "item27) "
C14_Witness ==
    /\ AfterOrderedLi
    /\ Len(hp.list_stack) = 2 /\ Last(hp.list_counters) = 27
    /\ Last(pdf.calls).text = <<"i", "t", "e", "m", "2", "7", ")", " ">>

\* the list state of the parser at work
ListStack == IF conv = "html_pdf" THEN hp.list_stack ELSE hd.list_stack
ListCounters == IF conv = "html_pdf" THEN hp.list_counters ELSE hd.list_counters
InnermostOrdered == ListStack # <<>> /\ Last(ListStack) \in {"ol", "number"}

\* the step handles an event (and not the end of the input)
HandlesEvent == pos' = pos + 1
Handled == input'[pos]

\* what a step does to the counters: a list start tag adds a counter 0, an <li>
\* of an ordered list adds one to the innermost counter, a list end tag takes
\* the innermost counter away, everything else leaves all counters alone
CountersStep ==
    IF HandlesEvent /\ Handled.kind = "start" /\ Handled.tag \in {"ul", "ol"}
    THEN ListCounters' = Append(ListCounters, 0)
    ELSE IF HandlesEvent /\ Handled = St("li") /\ InnermostOrdered
    THEN /\ ListCounters' = [ListCounters EXCEPT ![Len(ListCounters)] = @ + 1]
         /\ conv = "html_pdf" =>
               Last(pdf'.calls).text = MarkerAmended(Len(ListStack), Last(ListCounters) + 1)
    ELSE IF HandlesEvent /\ Handled.kind = "end" /\ Handled.tag \in {"ul", "ol"}
            /\ ListCounters # <<>>
    THEN ListCounters' = Front(ListCounters)
    ELSE ListCounters' = ListCounters

\* the markers written for ScriptAfterNested and the counters after each of its items
AfterNestedNumbering ==
    (mode = "script" /\ input = ScriptAfterNested) =>
        /\ pos = 3 => ListCounters = <<1>>
        /\ pos = 6 => ListCounters = <<1, 1>>
        /\ pos = 11 => ListCounters = <<2>>
        /\ pos = 16 => ListCounters = <<1>>
        /\ (conv = "html_pdf" /\ pos = 11) => Last(pdf.calls).text = <<"2", ".", " ">>

\* C15: in both HTML parsers a counter is 0 when its list is opened and is
\* incremented once by each <li> whose innermost open list is that ordered
\* list; nested lists leave the counters of the enclosing lists alone, so the
\* second item after an item with a nested list is numbered 2, and a new list
\* starts at 1.
C15_Counters == [][CountersStep]_vars /\ []AfterNestedNumbering

\* the flow parser has counted the second item of a list whose first item held
\* a nested list
C15_Witness ==
    /\ conv = "html_docx" /\ input = ScriptAfterNested /\ pos = 11
    /\ hd.list_counters = <<2>>

\* an end tag that finds its stack empty leaves the stacks of the flow parser alone
EmptyPopStep ==
    (conv = "html_docx" /\ HandlesEvent /\ Handled.kind = "end") =>
        /\ (Handled.tag \in {"b", "strong", "i", "em", "code", "pre"} /\ hd.style_stack = <<>>) =>
              /\ hd'.style_stack = <<>>
              /\ hd'.list_stack = hd.list_stack /\ hd'.list_counters = hd.list_counters
              /\ pc' # "raised"
        /\ (Handled.tag \in {"ul", "ol"} /\ hd.list_stack = <<>>) =>
              /\ hd'.list_stack = <<>> /\ hd'.list_counters = hd.list_counters
              /\ hd'.style_stack = hd.style_stack
              /\ pc' # "raised"

\* the font stack of the page parser keeps its base entry, its level is not negative
BaseEntryKept ==
    conv = "html_pdf" => Len(hp.font_stack) >= 1 /\ hp.list_indent_level >= 0

\* C16: popping an empty stack is a no-op: in the flow parser an inline or
\* </pre> end tag on an empty style stack and a list end tag on an empty list
\* stack leave the stacks unchanged and raise nothing; in the page parser the
\* font stack always holds at least one entry and list_indent_level is never
\* negative.
C16_EmptyPop == [][EmptyPopStep]_vars /\ []BaseEntryKept

\* the page parser has handled an inline end tag and a list end tag that had
\* nothing to pop
C16_Witness ==
    /\ conv = "html_pdf" /\ pos = 3
    /\ input[1] = En("b") /\ input[2] = En("ul")
    /\ Len(hp.font_stack) = 1 /\ hp.list_indent_level = 0

\* the style an inline end tag closes
StyleOf(tag) ==
    CASE tag \in {"b", "strong"} -> "bold"
      [] tag \in {"i", "em"} -> "italic"
      [] tag = "code" -> "code"
      [] tag = "pre" -> "pre"

\* q without its i-th entry
Without(q, i) == SubSeq(q, 1, i - 1) \o SubSeq(q, i + 1, Len(q))

\* an end tag of a style removes one entry of that style or nothing
MatchingPopStep ==
    (/\ conv = "html_docx" /\ HandlesEvent /\ Handled.kind = "end"
     /\ Handled.tag \in {"b", "strong", "i", "em", "code", "pre"}) =>
        \/ hd'.style_stack = hd.style_stack
        \/ \E i \in 1..Len(hd.style_stack) :
              /\ hd.style_stack[i] = StyleOf(Handled.tag)
              /\ hd'.style_stack = Without(hd.style_stack, i)

\* once the two elements of ScriptPreBold are closed no style is left
ClosedMeansEmpty ==
    (conv = "html_docx" /\ mode = "script" /\ input = ScriptPreBold /\ pos > 5) =>
        hd.style_stack = <<>>

\* C17: in the flow parser an end tag of an inline style removes from the
\* style stack only an entry of the style that tag opens and otherwise leaves
\* the stack unchanged; after every opened style element has been closed, in
\* any order, the style stack is empty.
C17_MatchingPop == [][MatchingPopStep]_vars /\ []ClosedMeansEmpty

\* the page parser's level is the depth of both of its list stacks
LevelIsDepth ==
    conv = "html_pdf" =>
        /\ hp.list_indent_level = Len(hp.list_stack)
        /\ Len(hp.list_stack) = Len(hp.list_counters)
        /\ hp.list_indent_level >= 0

\* the flow parser's list stacks have one depth, and in_list tells whether it is 0
InListIsDepth ==
    conv = "html_docx" =>
        /\ Len(hd.list_stack) = Len(hd.list_counters)
        /\ hd.in_list <=> hd.list_stack # <<>>

\* the x position set at an <li> just handled by the page parser
LiIndent ==
    (conv = "html_pdf" /\ pc = "run" /\ pos > 1 /\ input[pos - 1] = St("li")) =>
        LET n == Len(pdf.calls)
        IN  /\ n >= 2
            /\ pdf.calls[n - 1].op = "set_x"
            /\ pdf.calls[n - 1].arg = LMargin + hp.list_indent_level * base_indent
            /\ pdf.calls[n].op = "write"
            /\ pdf.calls[n].x = LMargin + Len(hp.list_stack) * base_indent

\* C18: in every reachable state of the page parser list_indent_level =
\* len(list_stack) = len(list_counters) >= 0, unmatched list end tags and
\* unclosed lists included; in every reachable state of the flow parser
\* len(list_stack) = len(list_counters) and in_list holds exactly when
\* list_stack is not empty; the x position set at each <li> of the page parser
\* is the left margin plus list_indent_level times base_indent.
C18_LevelIsDepth == LevelIsDepth /\ InListIsDepth /\ LiIndent

\* an <li> two lists deep has been set at two indents
C18_Witness ==
    /\ conv = "html_pdf" /\ pc = "run" /\ mode = "free" /\ pos = 4
    /\ input[1] = St("ul") /\ input[2] = St("ol") /\ input[3] = St("li")
    /\ hp.list_indent_level = 2
    /\ pdf.calls[Len(pdf.calls) - 1].arg = LMargin + 2 * base_indent

\* the flow parser has a paragraph open to which nothing has been written,
\* and no text is waiting to be written
OpenAndEmpty ==
    /\ hd.current_paragraph # 0
    /\ doc[hd.current_paragraph].runs = <<>>
    /\ Strip(hd.current_text) = <<>>

\* a <p> start tag arriving at an open, empty paragraph adds no paragraph
IdempotentPStep ==
    (conv = "html_docx" /\ HandlesEvent /\ Handled = St("p") /\ OpenAndEmpty) =>
        Len(doc') = Len(doc)

\* <p><p>text</p> yields one paragraph
TwoPOneParagraph ==
    (conv = "html_docx" /\ mode = "script" /\ input = ScriptTwoP /\ pc = "done") =>
        Len(doc) = 1

\* C19: the <p> start tag of the flow parser is idempotent: when a paragraph is
\* open and nothing has been written to it, a further <p> adds no paragraph to
\* the document, so <p><p>text</p> yields one paragraph.
C19_IdempotentP == [][IdempotentPStep]_vars /\ []TwoPOneParagraph

\* the flow document and the page once the text waiting at the tag is written
FlushedDoc == HdFlushText(HdS).d
FlushedPdf == HpFlushText(HpS).f

\* a list end tag that finds a list open pops its frame, and adds the trailing
\* spacing exactly when no list is open after the pop
ClosingStep ==
    (/\ HandlesEvent /\ Handled.kind = "end" /\ Handled.tag \in {"ul", "ol"}
     /\ ListStack # <<>>) =>
        /\ ListStack' = Front(ListStack)
        /\ ListCounters' = Front(ListCounters)
        /\ conv = "html_docx" =>
              doc' = IF ListStack' = <<>> THEN DocAddParagraph(FlushedDoc, "Normal")
                     ELSE FlushedDoc
        /\ conv = "html_pdf" =>
              pdf' = IF ListStack' = <<>> THEN PdfSetX(PdfLn(FlushedPdf, 4), LMargin)
                     ELSE FlushedPdf

\* the spacings of a document: its empty paragraphs, its ln(4) calls after the first write
EmptyParagraphs == {i \in 1..Len(doc) : doc[i].runs = <<>> /\ doc[i].style = "Normal"}
SpacingCalls ==
    {i \in 1..Len(pdf.calls) :
        /\ pdf.calls[i].op = "ln" /\ pdf.calls[i].arg = 4
        /\ \E j \in 1..(i - 1) : pdf.calls[j].op = "write"}

\* three lists nested in each other and closed leave one spacing, at the end
OneSpacingPerList ==
    (mode = "script" /\ input = ScriptLists /\ pc = "run" /\ pos = 14) =>
        IF conv = "html_docx"
        THEN EmptyParagraphs = {Len(doc)}
        ELSE SpacingCalls = {Len(pdf.calls) - 1}

\* C20: closing a list in either HTML parser pops exactly one list frame, kind
\* and counter together, and the trailing spacing is inserted at that end tag
\* if and only if the list stack is empty after the pop; closing a nested list
\* inserts no spacing, and lists nested to any depth get one trailing spacing
\* per outermost list.
C20_SpacingWhenEmpty == [][ClosingStep]_vars /\ []OneSpacingPerList

\* the outermost of three nested lists has been closed and the spacing is there
C20_Witness ==
    /\ mode = "script" /\ input = ScriptLists /\ pc = "run" /\ pos = 14
    /\ ListStack = <<>>
    /\ conv = "html_docx" => Len(doc) = 4
    /\ conv = "html_pdf" => Last(pdf.calls).op = "set_x"

\* Claims about the paragraphs and runs of the HTML flow parser

\* an <li> start tag adds one paragraph, styled after the innermost open list
LiStyleStep ==
    (conv = "html_docx" /\ HandlesEvent /\ Handled = St("li")) =>
        /\ Len(doc') = Len(FlushedDoc) + 1
        /\ hd'.current_paragraph = Len(doc')
        /\ Last(doc').style =
              IF hd.list_stack = <<>> THEN "List Bullet"
              ELSE IF Last(hd.list_stack) = "number" THEN "List Number"
              ELSE "List Bullet"

\* the styles of the item paragraphs of ScriptMixedNested
MixedNestedStyles ==
    (conv = "html_docx" /\ mode = "script" /\ input = ScriptMixedNested /\ pc = "done") =>
        [i \in 1..Len(doc) |-> doc[i].style] =
            <<"List Number", "List Bullet", "List Number", "Normal", "List Bullet">>

\* C21: in the flow parser every <li> start tag opens a new paragraph whose
\* style follows the top of the list stack at that moment: 'List Number' in an
\* <ol>, 'List Bullet' in a <ul> and when no list is open; after a nested list
\* closes the items of the enclosing list keep the enclosing list's style.
C21_LiStyle == [][LiStyleStep]_vars /\ []MixedNestedStyles

\* the item after the nested bullet list has been opened as a numbered item
C21_Witness ==
    /\ conv = "html_docx" /\ mode = "script" /\ input = ScriptMixedNested /\ pos = 11
    /\ hd.list_stack = <<"number">>
    /\ Last(doc).style = "List Number"
    /\ doc[2].style = "List Bullet"

\* Claims about the text of list items on the page

\* the writes the flush of the waiting text makes
FlushWrites ==
    SelectSeq(SubSeq(FlushedPdf.calls, Len(pdf.calls) + 1, Len(FlushedPdf.calls)), IsWrite)

\* the first text of a list item is flushed: it starts where the marker ended,
\* and every line it wraps to starts at that x
ContinuationStep ==
    (/\ conv = "html_pdf"
     /\ (HandlesEvent /\ Handled.kind \in {"start", "end"}) \/ pc' = "done"
     /\ hp.in_list_item /\ hp.list_item_first_line /\ Strip(hp.current_text) # <<>>) =>
        /\ FlushWrites # <<>>
        /\ FlushWrites[1].x = pdf.x
        /\ \A i \in 1..Len(FlushWrites) : FlushWrites[i].x = FlushWrites[1].x

\* the text after a <br> in a list item starts where the text before it started
BrAligned ==
    (conv = "html_pdf" /\ mode = "script" /\ input = ScriptItemBr /\ pc = "done") =>
        /\ Len(Writes) = 3
        /\ Writes[3].x = Writes[2].x
        /\ Writes[3].x # Writes[1].x

\* C22: in the page parser, when the text of a list item wraps or follows a
\* <br>, every continuation line starts at the x position at which the text of
\* the item's first line started, directly after the written marker, and not
\* at the x position of the marker.
C22_ContinuationAligned == [][ContinuationStep]_vars /\ []BrAligned

\* Claims about the shading of code runs in the HTML flow parser

\* the document with every run shaded that asked for it
ShadeAll(d) ==
    [i \in 1..Len(d) |->
        [d[i] EXCEPT !.runs = [j \in 1..Len(d[i].runs) |->
            [d[i].runs[j] EXCEPT !.shaded = (d[i].runs[j].font = "Courier New")]]]]

\* the state the parser would be in had every shading call succeeded
AsIfShaded == [p |-> hd, d |-> ShadeAll(doc), rejected |-> {}]

\* the parser flushes text under code or pre and the shading of its run is rejected
ShadingFails ==
    /\ conv = "html_docx"
    /\ (HandlesEvent /\ Handled.kind \in {"start", "end"}) \/ pc' = "done"
    /\ Strip(hd.current_text) # <<>>
    /\ In("code", hd.style_stack) \/ In("pre", hd.style_stack)
    /\ LET S1 == HdEnsureRun(HdEnsureParagraph(HdS))
       IN  ShadingRaises(S1, S1.p.current_run)

\* the run is in the document with the whole text, unshaded; the buffer is empty
ContentKept ==
    /\ hd'.current_text = <<>>
    /\ pc' # "raised"
    /\ \E k \in 1..Len(doc') : \E j \in 1..Len(doc'[k].runs) :
          /\ k > Len(doc) \/ j > Len(doc[k].runs)
          /\ doc'[k].runs[j] =
                [HdRun(Strip(hd.current_text), hd.style_stack) EXCEPT !.shaded = FALSE]

\* a step leads where it would lead had all shadings succeeded, shading apart
SameAsShaded ==
    LET w == IF pc' = "done" THEN HdFlushText(AsIfShaded)
             ELSE IF Handled.kind = "start" THEN HdHandleStartTag(AsIfShaded, Handled.tag)
             ELSE IF Handled.kind = "end" THEN HdHandleEndTag(AsIfShaded, Handled.tag)
             ELSE HdHandleData(AsIfShaded, Handled.text)
    IN  hd' = w.p /\ ShadeAll(doc') = w.d

ShadingStep ==
    /\ ShadingFails => ContentKept
    /\ conv = "html_docx" => SameAsShaded

\* C23: when the shading call for a run under an active code or pre style
\* fails, flush_text of the flow parser has still added the run with its full
\* text, has cleared the pending buffer and raises nothing, and the parser
\* goes on with the following events in the state it would have had if the
\* shading had succeeded.
C23_ShadingFailureKeepsContent == [][ShadingStep]_vars

\* the conversion has returned and its document holds a code run that could
\* not be shaded, followed by a run that could
C23_Witness ==
    /\ conv = "html_docx" /\ pc = "done" /\ input = ScriptCode
    /\ env.shading = {2}
    /\ doc[1].runs[2].font = "Courier New" /\ ~doc[1].runs[2].shaded
    /\ doc[1].runs[2].text = TextSecond
    /\ doc[1].runs[3].font = "Courier New" /\ doc[1].runs[3].shaded
    /\ hd.current_text = <<>>

\* Claims about the flush discipline of the HTML parsers

\* the pending text of the parser at work
Buffer == IF conv = "html_pdf" THEN hp.current_text ELSE hd.current_text

\* the step handles a tag, or the end of the input
TagOrEnd == (HandlesEvent /\ Handled.kind \in {"start", "end"}) \/ (pc = "run" /\ pc' = "done")

\* the text with every run of blanks made one blank: its words, in order
IsKept(cb) == cb[2]
Marked(t) == [i \in 1..Len(t) |-> <<t[i], t[i] # " " \/ (i > 1 /\ t[i - 1] # " ")>>]
Firsts(k) == [i \in 1..Len(k) |-> k[i][1]]
WordsOf(text) ==
    CHOOSE r \in {Firsts(k) : k \in {SelectSeq(Marked(t), IsKept) : t \in {text}}} : TRUE

\* the runs with text that the step adds to the document, by paragraph and position
NewTextRuns ==
    {kj \in UNION {{<<k, j>> : j \in 1..Len(doc'[k].runs)} : k \in 1..Len(doc')} :
        /\ ~doc'[kj[1]].runs[kj[2]].brk
        /\ kj[1] > Len(doc) \/ kj[2] > Len(doc[kj[1]].runs)}

\* the runs the document held are still there
RunsKept ==
    /\ Len(doc') >= Len(doc)
    /\ \A k \in 1..Len(doc) :
          /\ Len(doc'[k].runs) >= Len(doc[k].runs)
          /\ SubSeq(doc'[k].runs, 1, Len(doc[k].runs)) = doc[k].runs

\* the flow parser emits the pending text as one run, styled by the stack as
\* it is before the tag
FlushedOnceDocx ==
    /\ RunsKept
    /\ IF Strip(hd.current_text) = <<>> THEN NewTextRuns = {}
       ELSE \E kj \in NewTextRuns :
               /\ NewTextRuns = {kj}
               /\ doc'[kj[1]].runs[kj[2]] = HdRun(Strip(hd.current_text), hd.style_stack)

\* the writes of the step that carry pending text: all of them but the marker
\* an <li> writes after the flush
TextWrites ==
    LET w == SelectSeq(NewCalls, IsWrite)
    IN  IF HandlesEvent /\ Handled = St("li") THEN Front(w) ELSE w

\* the page parser writes the words of the pending text once, in their order,
\* in the font set before the tag
FlushedOncePdf ==
    /\ SubSeq(pdf'.calls, 1, Len(pdf.calls)) = pdf.calls
    /\ \E w \in {TextWrites} :
          /\ \E written \in {AsciiReplace(Concat([i \in 1..Len(w) |-> w[i].text \o <<" ">>]))},
                pending \in {AsciiReplace(IF hp.unicode_support THEN Strip(hp.current_text)
                                          ELSE Latin1Replace(Strip(hp.current_text)))} :
                WordsOf(written) = WordsOf(pending \o <<" ">>)
          /\ \A i \in 1..Len(w) : w[i].font = pdf.font

\* text received is added to the pending text and nothing is emitted
BufferedStep ==
    /\ Buffer' = IF Strip(Unescape(Handled.text)) = <<>> THEN Buffer
                 ELSE Buffer \o Strip(Unescape(Handled.text)) \o <<" ">>
    /\ conv = "html_pdf" => pdf' = pdf
    /\ conv = "html_docx" => doc' = doc

FlushStep ==
    /\ TagOrEnd =>
          /\ Buffer' = <<>>
          /\ conv = "html_docx" => FlushedOnceDocx
          /\ conv = "html_pdf" => FlushedOncePdf
    /\ (HandlesEvent /\ Handled.kind = "data") => BufferedStep

\* C24: both HTML parsers flush the pending text at the beginning of every
\* start tag and end tag and at the end of the input: the buffer is empty after
\* each tag event and when the conversion returns, and every non-blank text
\* chunk received is emitted to the sink exactly once, in input order, with
\* the styles active before the tag that triggered the flush.
C24_FlushDiscipline == [][FlushStep]_vars /\ [](pc = "done" => Buffer = <<>>)

\* the flow parser has returned three runs for the three chunks of ScriptInline,
\* the second of them bold
C24_Witness ==
    /\ conv = "html_docx" /\ mode = "script" /\ input = ScriptInline /\ pc = "done"
    /\ Len(doc) = 1 /\ Len(doc[1].runs) = 3
    /\ doc[1].runs[1].text = TextLong /\ ~doc[1].runs[1].bold
    /\ doc[1].runs[2].text = TextLong /\ doc[1].runs[2].bold
    /\ doc[1].runs[3].text = TextHalf /\ ~doc[1].runs[3].bold
    /\ hd.current_text = <<>>

(***************************************************************************)
(* C25: the classification of a line outside code blocks by the markdown   *)
(* flow renderer.                                                          *)
(***************************************************************************)
\* the number of '#' the text starts with
LeadingHashes(t) ==
    CHOOSE n \in 0..Len(t) :
        /\ \A i \in 1..n : t[i] = "#"
        /\ n = Len(t) \/ t[n + 1] # "#"

\* the runs of the inline tokens of text
RunsOf(text) ==
    CHOOSE r \in {[i \in 1..Len(toks) |-> RunOfToken(toks[i])] : toks \in {Tokenize(text)}} :
        TRUE

\* what the document gains by the line whose trimmed text is t and that
\* starts with n '#'
Classified(t, n) ==
    IF n \in 1..3 /\ Len(t) > n /\ t[n + 1] = " "
    THEN <<Paragraph("heading", n, "Heading", <<PlainRun(SliceFrom(t, n + 1))>>)>>
    ELSE IF n >= 4
    THEN <<Paragraph("paragraph", 0, "Normal", RunsOf(t))>>
    ELSE IF Len(t) >= 2 /\ t[1] \in {"*", "-"} /\ t[2] = " "
    THEN <<Paragraph("paragraph", 0, "List Bullet", RunsOf(SliceFrom(t, 2)))>>
    ELSE IF t # <<>>
    THEN <<Paragraph("paragraph", 0, "Normal", RunsOf(t))>>
    ELSE <<>>

ClassifyStep ==
    (HandlesEvent /\ conv = "md_docx" /\ ~md.in_code_block /\ ~IsFenceLine(Handled)) =>
        /\ \E t \in {Strip(Handled)} : doc' = doc \o Classified(t, LeadingHashes(t))
        /\ md' = md

\* C25: outside code blocks (the line is neither in a code block nor a fence)
\* a line that starts, after trimming, with "# ", "## " or "### " becomes a
\* heading of level 1, 2 or 3 with the remainder as its text; a line with
\* four or more leading '#' becomes an ordinary paragraph; a line starting
\* with "* " or "- " becomes a list item; any other non-blank line becomes a
\* paragraph; a blank line emits nothing.
C25_LineClassification == [][ClassifyStep]_vars

\* a line of four '#', an item whose text is in italics and an indented
\* heading were rendered, each as the claim says
C25_Witness ==
    /\ conv = "md_docx" /\ pc = "done"
    /\ input = <<LineHeadingFour, LineStarItem, LineIndentedHash>>
    /\ Len(doc) = 3
    /\ doc[1].kind = "paragraph" /\ doc[1].style = "Normal"
    /\ doc[1].runs = <<PlainRun(LineHeadingFour)>>
    /\ doc[2].style = "List Bullet" /\ doc[2].runs = <<[PlainRun(<<"a">>) EXCEPT !.italic = TRUE]>>
    /\ doc[3].kind = "heading" /\ doc[3].level = 1 /\ doc[3].runs = <<PlainRun(<<"x">>)>>

(***************************************************************************)
(* C26: the precedence of code and pre over bold and italic in the runs    *)
(* the flow parser flushes.                                                *)
(***************************************************************************)
\* a flush of text under the style stack st added the run r
FlushedUnder(st, r) ==
    /\ conv = "html_docx"
    /\ hd.current_text # <<>> /\ hd'.current_text = <<>>
    /\ st = hd.style_stack
    /\ \E k \in 1..Len(doc') :
          /\ doc'[k].runs # <<>>
          /\ k > Len(doc) \/ Len(doc'[k].runs) > Len(doc[k].runs)
          /\ r = Last(doc'[k].runs)

CodeWinsStep ==
    conv = "html_docx" => \A st \in {hd.style_stack} :
        (In("code", st) \/ In("pre", st)) /\ (In("bold", st) \/ In("italic", st)) =>
            \A k \in 1..Len(doc') : \A r \in {doc'[k].runs[j] : j \in 1..Len(doc'[k].runs)} :
                FlushedUnder(st, r) =>
                    r.font = "Courier New" /\ r.shaded /\ ~r.bold /\ ~r.italic

\* C26: when 'code' or 'pre' is on the style stack together with 'bold' or
\* 'italic', the run the flow parser flushes is monospace with shading and is
\* neither bold nor italic: code formatting wins over the two flags and is
\* not combined with them.
C26_CodeWins == [][CodeWinsStep]_vars

(***************************************************************************)
(* C27: the marker and the indent of a list item in the markdown page      *)
(* renderer.                                                               *)
(***************************************************************************)
IsItemLine(l) ==
    \E t \in {Strip(l)} : Len(t) >= 2 /\ t[1] \in {"*", "-"} /\ t[2] = " "

\* the writes of the step, in order
NewWrites == SelectSeq(NewCalls, IsWrite)

\* the marker is written first, at the left margin; the text follows it, and
\* every write that does not continue its line starts where the text of the
\* first line started
ItemAligned(w, toks) ==
    /\ w # <<>>
    /\ w[1].text = <<"-", " ">> /\ w[1].x = LMargin
    /\ SelectSeq(TextOf(Tail(w)), LAMBDA c : c # " ")
          = SelectSeq(Latin1Replace(Concat([i \in 1..Len(toks) |-> toks[i].content])),
                      LAMBDA c : c # " ")
    /\ \A k \in 2..Len(w) : w[k].x = XAfter(w[k - 1]) \/ w[k].x = XAfter(w[1])

ItemStep ==
    (HandlesEvent /\ conv = "md_pdf" /\ ~md.in_code_block /\ IsItemLine(Handled)) =>
        \E w \in {NewWrites} :
            \E toks \in {Tokenize(Strip(SliceFrom(Strip(Handled), 2)))} : ItemAligned(w, toks)

\* C27: the markdown page renderer writes a list item as the marker "- " at
\* the left margin followed by its tokenized text, and the wrapped lines of
\* the item start at the left margin plus the measured width of the written
\* marker, which is where the text of the first line started.
C27_ItemIndent == [][ItemStep]_vars

(***************************************************************************)
(* C28: in_list_item of the page parser and the items that are open.       *)
(***************************************************************************)
\* the number of <li> opened and not yet closed after the first k events
OpenItemsAfter[k \in 0..Len(input)] ==
    IF k = 0 THEN 0
    ELSE IF input[k].kind = "start" /\ input[k].tag = "li" THEN OpenItemsAfter[k - 1] + 1
    ELSE IF input[k].kind = "end" /\ input[k].tag = "li" /\ OpenItemsAfter[k - 1] > 0
    THEN OpenItemsAfter[k - 1] - 1
    ELSE OpenItemsAfter[k - 1]

OpenItems == OpenItemsAfter[pos - 1]

\* C28: in the page parser in_list_item is true in exactly the states where
\* at least one <li> has been opened and not yet closed; so the text of an
\* open item that follows the </li> of a nested item is flushed with
\* in_list_item true.
C28_InListItem ==
    (conv = "html_pdf" /\ pc \in {"run", "done"}) => (hp.in_list_item <=> OpenItems > 0)

(***************************************************************************)
(* C29: the font of the text of a heading in the page parser.              *)
(***************************************************************************)
\* the level of the heading that is open after the first k events, 0 if none
OpenHeadingAfter[k \in 0..Len(input)] ==
    IF k = 0 THEN 0
    ELSE IF input[k].kind = "start" /\ input[k].tag \in Headings
    THEN HeadingLevel(input[k].tag)
    ELSE IF input[k].kind = "end" /\ input[k].tag \in Headings THEN 0
    ELSE OpenHeadingAfter[k - 1]

OpenHeading == OpenHeadingAfter[pos - 1]

\* bold, of size max(16 - 2 * (N - 1), 10)
HeadingFont(N) == <<"Helvetica", <<"B">>, Max(16 - 2 * (N - 1), 10)>>

HeadingStep ==
    conv = "html_pdf" =>
        /\ OpenHeading > 0 =>
               \A w \in {NewWrites[k] : k \in 1..Len(NewWrites)} : w.font = HeadingFont(OpenHeading)
        /\ (OpenHeading > 0 /\ HandlesEvent /\ Handled.kind = "end" /\ Handled.tag \in Headings) =>
               pdf'.font = Last(hp'.font_stack)

\* C29: in the page parser all text between an hN start tag and its end tag
\* is written in the heading font (bold, size max(16 - 2 * (N - 1), 10)),
\* also after a </b>, </i> or </code> inside the heading, and after the end
\* tag of the heading the active font is the one on top of the font stack.
C29_HeadingFont == [][HeadingStep]_vars

(***************************************************************************)
(* C30: the fallback of process_pdf_inline_styles_safe for one line.       *)
(***************************************************************************)
\* the characters of s that are not blanks
NoBlanks(s) == SelectSeq(s, LAMBDA c : c # " ")

\* the except clause of process_pdf_inline_styles_safe has run in the step:
\* it alone writes a block of text for a line outside code blocks and headings
FellBack ==
    /\ HandlesEvent /\ conv = "md_pdf" /\ IsInlineLine(md, Handled)
    /\ \E i \in 1..Len(NewCalls) : NewCalls[i].op = "multi_cell"

\* the text the function has emitted: the text calls between md'.from and md'.to
EmittedByCall ==
    TextOf(SelectSeq(SubSeq(pdf'.calls, md'.from + 1, md'.to), IsTextCall))

\* the text of the line is in the output once: as the line itself or as the
\* contents of its tokens
OnceStep ==
    FellBack =>
        /\ pc' = "run"
        /\ pdf'.font = <<"Helvetica", <<>>, 12>>
        /\ \E emitted \in {NoBlanks(EmittedByCall)} :
              \E toks \in {Tokenize(md'.line)} :
                 \/ emitted = NoBlanks(Latin1Replace(md'.line))
                 \/ emitted = NoBlanks(Latin1Replace(
                                  Concat([i \in 1..Len(toks) |-> toks[i].content])))

\* C30: when a sink call fails while process_pdf_inline_styles_safe is
\* part-way through a line, the function recovers without raising, resets
\* the font to the default, and the text of the line is in the output
\* exactly once: the words written before the failure are not emitted again
\* by the fallback write of the whole line.
C30_FallbackOnce == [][OnceStep]_vars

====
